---- MODULE Spec2Model ----
(***************************************************************************)
(* River-flood pipeline of rodekruis/IBF-river-flood-pipeline: the         *)
(* forecast engine (floodpipeline/forecast.py), the dataset containers     *)
(* (floodpipeline/data.py) and the publisher (floodpipeline/load.py).      *)
(*                                                                         *)
(* Units.  Python floats are modelled by integers:                         *)
(*   - a return period is held in tenths of a year  (5.0 -> 50, 1.5 -> 15) *)
(*   - a probability is held in percent             (0.5 -> 50)            *)
(*   - a likelihood k/n is held as the fraction [num |-> k, den |-> n]     *)
(*   - an alert threshold (severity) is held in tenths (0.3 -> 3)          *)
(*   - a discharge and a threshold value are plain integers                *)
(* A Python dict is an insertion-ordered sequence of <<key, value>> pairs; *)
(* a Python list is a sequence; None (for a list or a name) is <<>> / "".  *)
(***************************************************************************)
EXTENDS Integers, Sequences, FiniteSets, TLC

VARIABLES
    settings,            \* the country's entry of the configuration file
    threshold_admin,     \* PipelineDataSets.threshold_admin.data_units
    threshold_station,   \* PipelineDataSets.threshold_station.data_units
    discharge_admin,     \* PipelineDataSets.discharge_admin.data_units
    discharge_station,   \* PipelineDataSets.discharge_station.data_units
    forecast_admin,      \* PipelineDataSets.forecast_admin.data_units
    forecast_station,    \* PipelineDataSets.forecast_station.data_units
    pc,                  \* position of the run
    error,               \* the exception that ended the run ("" while none)
    processed_stations,  \* send_to_ibf_api: processed_stations
    processed_pcodes,    \* send_to_ibf_api: processed_pcodes
    posted,              \* the POST requests the IBF API accepted, in order
    log,                 \* logging.info records of the event loop
    rejects,             \* the path the IBF API answers with a status >= 400 ("": none)
    refused,             \* the POST requests the IBF API answered with a status >= 400
    flood_extent_rasters, \* data/output/flood_extent_<lead_time>.tif, per lead time
    countries,           \* run_pipeline: the countries the loop has still to reach
    aff_pop_rasters      \* data/output/affected_population_<lead_time>.tif, per lead time

vars == <<settings, threshold_admin, threshold_station, discharge_admin,
          discharge_station, forecast_admin, forecast_station, pc, error,
          processed_stations, processed_pcodes, posted, log, rejects, refused,
          flood_extent_rasters, countries, aff_pop_rasters>>

-----------------------------------------------------------------------------
(* Bounds of the model *)

\* no_ensemble_members: members of every discharge ensemble
NoEns == 2
\* (unit, lead time) cells whose discharge is raised above the base flow
MaxBumps == 2

\* the datasets built by arbitrary upserts: the most units stored, and the last
\* of the lead times 0.. a unit can carry
MaxUnits == 3

MaxUpsertLeadTime == 2

-----------------------------------------------------------------------------
(* Generic helpers *)

Range(s) == {s[i] : i \in DOMAIN s}

SetMax(S) == CHOOSE x \in S : \A y \in S : y <= x

SetMin(S) == CHOOSE x \in S : \A y \in S : x <= y

RECURSIVE SeqSum(_)
SeqSum(s) == IF s = <<>> THEN 0 ELSE Head(s) + SeqSum(Tail(s))

RECURSIVE Concat(_)
Concat(ss) == IF ss = <<>> THEN <<>> ELSE Head(ss) \o Concat(Tail(ss))

\* dict[key] = value: an existing key keeps its place, a new key goes last
DictSet(d, k, v) ==
    IF \E i \in DOMAIN d : d[i][1] = k
    THEN [i \in DOMAIN d |-> IF d[i][1] = k THEN <<k, v>> ELSE d[i]]
    ELSE Append(d, <<k, v>>)

DictKeys(d) == {d[i][1] : i \in DOMAIN d}

DictGet(d, k) == d[CHOOSE i \in DOMAIN d : d[i][1] = k][2]

\* a >= p for a likelihood a = num/den and a probability p in percent
LikGE(a, p) == a.num * 100 >= p * a.den

-----------------------------------------------------------------------------
(* floodpipeline/data.py: the dataset containers *)

\* upsert_data_unit that appends the unit whether or not its key is stored
AdminUpsert_append(data_units, data_unit) == Append(data_units, data_unit)

\* AdminDataSet.upsert_data_unit for a unit that carries a lead time
AdminUpsert(data_units, data_unit) ==
    LET du == IF data_units = <<>> THEN <<data_unit>> ELSE data_units
        found == {i \in DOMAIN du : /\ du[i].pcode = data_unit.pcode
                                    /\ du[i].lead_time = data_unit.lead_time}
    IN  IF found = {} THEN Append(du, data_unit)
        ELSE [du EXCEPT ![SetMin(found)] = data_unit]

\* StationDataSet.upsert_data_unit for a unit that carries a lead time
StationUpsert(data_units, data_unit) ==
    LET du == IF data_units = <<>> THEN <<data_unit>> ELSE data_units
        found == {i \in DOMAIN du : /\ du[i].station_code = data_unit.station_code
                                    /\ du[i].lead_time = data_unit.lead_time}
    IN  IF found = {} THEN Append(du, data_unit)
        ELSE [du EXCEPT ![SetMin(found)] = data_unit]

\* the absent lead_time argument (lead_time: int = None)
NoLeadTime == -1

\* AdminDataSet.get_data_unit: the units that match, in list order (the first is
\* returned; ValueError when there is none).  The test is "lead_time is not None".
AdminFind(data_units, pcode, lead_time) ==
    {i \in DOMAIN data_units :
        /\ data_units[i].pcode = pcode
        /\ (lead_time # NoLeadTime => data_units[i].lead_time = lead_time)}

AdminHas(data_units, pcode, lead_time) == AdminFind(data_units, pcode, lead_time) # {}

AdminGet(data_units, pcode, lead_time) ==
    data_units[SetMin(AdminFind(data_units, pcode, lead_time))]

\* StationDataSet.get_data_unit: the test is "if lead_time:", which lead time 0
\* fails as None does
StationFind(data_units, station_code, lead_time) ==
    {i \in DOMAIN data_units :
        /\ data_units[i].station_code = station_code
        /\ ((lead_time # NoLeadTime /\ lead_time # 0)
                => data_units[i].lead_time = lead_time)}

StationHas(data_units, station_code, lead_time) ==
    StationFind(data_units, station_code, lead_time) # {}

StationGet(data_units, station_code, lead_time) ==
    data_units[SetMin(StationFind(data_units, station_code, lead_time))]

\* AdminDataSet.get_pcodes / get_lead_times, StationDataSet.get_station_codes
get_pcodes(data_units) == {data_units[i].pcode : i \in DOMAIN data_units}

get_pcodes_level(data_units, adm_level) ==
    {data_units[i].pcode : i \in {j \in DOMAIN data_units : data_units[j].adm_level = adm_level}}

get_lead_times(data_units) == {data_units[i].lead_time : i \in DOMAIN data_units}

get_station_codes(data_units) == {data_units[i].station_code : i \in DOMAIN data_units}

\* ThresholdDataUnit.get_threshold / ThresholdStationDataUnit.get_threshold:
\* the value of the first threshold with that return period
HasThreshold(thresholds, return_period) ==
    \E i \in DOMAIN thresholds : thresholds[i].return_period = return_period

get_threshold(thresholds, return_period) ==
    thresholds[SetMin({i \in DOMAIN thresholds :
                        thresholds[i].return_period = return_period})].threshold_value

\* a set as the list a loop walks: ascending for integers (lead times); for
\* strings the order of first appearance in the list the set was built from
RECURSIVE SetToSeqAsc(_)
SetToSeqAsc(S) == IF S = {} THEN <<>> ELSE <<SetMin(S)>> \o SetToSeqAsc(S \ {SetMin(S)})

RECURSIVE FirstAppearance(_, _)
FirstAppearance(keys, seen) ==
    IF keys = <<>> THEN <<>>
    ELSE IF Head(keys) \in seen THEN FirstAppearance(Tail(keys), seen)
         ELSE <<Head(keys)>> \o FirstAppearance(Tail(keys), seen \cup {Head(keys)})

-----------------------------------------------------------------------------
(* floodpipeline/forecast.py: the forecast engine *)

\* the exceptions a computation can raise, as values
Exceptions == {"KeyError", "ValueError", "TypeError", "AttributeError"}

\* get_ensemble_likelihood counting the members that reach the threshold
get_ensemble_likelihood_reaching(ensemble, threshold) ==
    LET threshold_checks == [i \in DOMAIN ensemble |->
                                IF ensemble[i] >= threshold THEN 1 ELSE 0]
    IN  [num |-> SeqSum(threshold_checks), den |-> Len(ensemble)]

\* likelihood = sum(1 if x > threshold else 0 for x in ensemble) / len(ensemble)
get_ensemble_likelihood(ensemble, threshold) ==
    LET threshold_checks == [i \in DOMAIN ensemble |->
                                IF ensemble[i] > threshold THEN 1 ELSE 0]
    IN  [num |-> SeqSum(threshold_checks), den |-> Len(ensemble)]

\* the loop over the unit's thresholds: likelihood_per_return_period, a dict
RECURSIVE likelihood_per_return_period(_, _, _)
likelihood_per_return_period(thresholds, ensemble, d) ==
    IF thresholds = <<>> THEN d
    ELSE likelihood_per_return_period(
            Tail(thresholds), ensemble,
            DictSet(d, Head(thresholds).return_period,
                    get_ensemble_likelihood(ensemble, Head(thresholds).threshold_value)))

\* the loop prepending each FloodForecast instead of appending it
forecasts_of_prepended(thresholds, ensemble) ==
    [i \in DOMAIN thresholds |->
        [return_period |-> thresholds[Len(thresholds) + 1 - i].return_period,
         likelihood |-> get_ensemble_likelihood(
                            ensemble, thresholds[Len(thresholds) + 1 - i].threshold_value)]]

\* the same loop: forecasts, a list with one FloodForecast per threshold
forecasts_of(thresholds, ensemble) ==
    [i \in DOMAIN thresholds |->
        [return_period |-> thresholds[i].return_period,
         likelihood |-> get_ensemble_likelihood(ensemble, thresholds[i].threshold_value)]]

\* compute_triggered with a likelihood that must exceed the minimum probability
compute_triggered_strict(lik, lead_time, s) ==
    /\ DictGet(lik, s.trigger_on_return_period).num * 100
            > s.trigger_on_minimum_probability * DictGet(lik, s.trigger_on_return_period).den
    /\ lead_time <= s.trigger_on_lead_time

\* compute_triggered without the test of the lead time
compute_triggered_any_lead_time(lik, lead_time, s) ==
    LikGE(DictGet(lik, s.trigger_on_return_period), s.trigger_on_minimum_probability)

\* compute_triggered on the lead time alone
compute_triggered_on_lead_time(lik, lead_time, s) == lead_time <= s.trigger_on_lead_time

\* triggered = likelihood[trigger_rp] >= trigger_min_prob and lead_time <= trigger_lead_time
compute_triggered(lik, lead_time, s) ==
    /\ LikGE(DictGet(lik, s.trigger_on_return_period), s.trigger_on_minimum_probability)
    /\ lead_time <= s.trigger_on_lead_time

\* compute_return_period without reversed(): the first key that qualifies
compute_return_period_first(lik, s) ==
    LET ok == {i \in DOMAIN lik : LikGE(lik[i][2], s.trigger_on_minimum_probability)}
    IN  IF ok = {} THEN 0 ELSE lik[SetMin(ok)][1]

\* next((key for key, value in reversed(lik.items()) if value >= min_prob), 0.0)
compute_return_period(lik, s) ==
    LET ok == {i \in DOMAIN lik : LikGE(lik[i][2], s.trigger_on_minimum_probability)}
    IN  IF ok = {} THEN 0 ELSE lik[SetMax(ok)][1]

\* the items of a dict as they are stored, not sorted
Unsorted(items) == items

\* sorted(d.items(), key=lambda item: item[1]): ascending by value, stable
SortedByValue(items) ==
    LET rank(i) == Cardinality({j \in DOMAIN items :
                        \/ items[j][2] < items[i][2]
                        \/ (items[j][2] = items[i][2] /\ j < i)}) + 1
    IN  [r \in DOMAIN items |-> items[CHOOSE i \in DOMAIN items : rank(i) = r]]

\* the first key of a dict
DictFirstKey(items) == items[1][1]

\* max(d, key=d.get): the first key, in the dict's order, whose value is largest
DictArgMax(items) ==
    LET top == SetMax({items[i][2] : i \in DOMAIN items})
    IN  items[SetMin({i \in DOMAIN items : items[i][2] = top})][1]

\* for class_, return_period in alert_on_return_period.items(): ...
RECURSIVE WalkReturnPeriods(_, _, _, _)
WalkReturnPeriods(items, lik, alert_on_minimum_probability, alert_class) ==
    IF items = <<>> THEN alert_class
    ELSE LET class_ == Head(items)[1]
             return_period == Head(items)[2]
         IN  IF return_period \notin DictKeys(lik) THEN "KeyError"
             ELSE IF alert_on_minimum_probability.dict THEN "TypeError"
             ELSE WalkReturnPeriods(
                    Tail(items), lik, alert_on_minimum_probability,
                    IF LikGE(DictGet(lik, return_period), alert_on_minimum_probability.value)
                    THEN class_ ELSE alert_class)

\* for class_, minimum_probability in alert_on_minimum_probability.items(): ...
RECURSIVE WalkProbabilities(_, _, _, _)
WalkProbabilities(items, lik, alert_on_return_period, alert_class) ==
    IF items = <<>> THEN alert_class
    ELSE LET class_ == Head(items)[1]
             minimum_probability == Head(items)[2]
         IN  IF alert_on_return_period.dict THEN "TypeError"
             ELSE IF alert_on_return_period.value \notin DictKeys(lik) THEN "KeyError"
             ELSE WalkProbabilities(
                    Tail(items), lik, alert_on_return_period,
                    IF LikGE(DictGet(lik, alert_on_return_period.value), minimum_probability)
                    THEN class_ ELSE alert_class)

\* classify_alert: the alert class, or the exception it raises
classify_alert(triggered, lik, classify_alert_on, alert_on_return_period, alert_on_minimum_probability) ==
    CASE classify_alert_on = "return-period" ->
            IF ~alert_on_return_period.dict
            THEN (IF alert_on_minimum_probability.dict THEN "ValueError"
                  ELSE "AttributeError")
            ELSE WalkReturnPeriods(SortedByValue(alert_on_return_period.items),
                                   lik, alert_on_minimum_probability, "no")
      [] classify_alert_on = "probability" ->
            IF ~alert_on_minimum_probability.dict
            THEN (IF alert_on_return_period.dict THEN "ValueError"
                  ELSE "AttributeError")
            ELSE WalkProbabilities(SortedByValue(alert_on_minimum_probability.items),
                                   lik, alert_on_return_period, "no")
      [] classify_alert_on = "disable" ->
            IF triggered /\ alert_on_return_period.dict
            THEN (IF alert_on_return_period.items = <<>> THEN "ValueError"
                  ELSE DictArgMax(alert_on_return_period.items))
            ELSE IF triggered /\ alert_on_minimum_probability.dict
            THEN (IF alert_on_minimum_probability.items = <<>> THEN "ValueError"
                  ELSE DictArgMax(alert_on_minimum_probability.items))
            ELSE "no"
      [] OTHER -> "ValueError"

\* the unit's forecast without its trigger return period: not triggered, no error
UnitForecast_untriggered(thresholds, ensemble, lead_time, s, missing) ==
    [error |-> "", forecasts |-> forecasts_of(thresholds, ensemble), triggered |-> FALSE,
     return_period |-> 0, alert_class |-> "no"]

\* one iteration of the loops of __compute_triggers and __compute_triggers_station,
\* from the thresholds loop to the alert class: the unit's forecast fields, or the
\* exception raised.  missing is what a trigger return period without a threshold
\* raises: a KeyError (admin), the explicit ValueError (station).
UnitForecast(thresholds, ensemble, lead_time, s, missing) ==
    LET lik == likelihood_per_return_period(thresholds, ensemble, <<>>)
        none == [error |-> "", forecasts |-> <<>>, triggered |-> FALSE,
                 return_period |-> 0, alert_class |-> "no"]
    IN  IF Len(ensemble) = 0 THEN [none EXCEPT !.error = "ZeroDivisionError"]
        ELSE IF s.trigger_on_return_period \notin DictKeys(lik)
        THEN [none EXCEPT !.error = missing]
        ELSE LET triggered == compute_triggered(lik, lead_time, s)
                 alert_class == classify_alert(triggered, lik, s.classify_alert_on,
                                               s.alert_on_return_period,
                                               s.alert_on_minimum_probability)
             IN  IF alert_class \in Exceptions
                 THEN [none EXCEPT !.error = alert_class]
                 ELSE [error |-> "",
                       forecasts |-> forecasts_of(thresholds, ensemble),
                       triggered |-> triggered,
                       return_period |-> compute_return_period(lik, s),
                       alert_class |-> alert_class]

\* the body of the (pcode, lead_time) loop of __compute_triggers
AdminForecastUnit(discharge_data_unit, thresholds, s) ==
    LET f == UnitForecast(thresholds, discharge_data_unit.discharge_ensemble,
                          discharge_data_unit.lead_time, s, "KeyError")
    IN  [error |-> f.error,
         unit |-> [adm_level |-> discharge_data_unit.adm_level,
                   pcode |-> discharge_data_unit.pcode,
                   lead_time |-> discharge_data_unit.lead_time,
                   forecasts |-> f.forecasts,
                   pop_affected |-> 0,
                   pop_affected_perc |-> 0,
                   triggered |-> f.triggered,
                   return_period |-> f.return_period,
                   alert_class |-> f.alert_class]]

\* the body of the loop of __compute_triggers_station
StationForecastUnit(discharge_unit, thresholds, s) ==
    LET f == UnitForecast(thresholds, discharge_unit.discharge_ensemble,
                          discharge_unit.lead_time, s, "ValueError")
    IN  [error |-> f.error,
         unit |-> [station_code |-> discharge_unit.station_code,
                   station_name |-> discharge_unit.station_name,
                   pcodes |-> discharge_unit.pcodes,
                   lead_time |-> discharge_unit.lead_time,
                   forecasts |-> f.forecasts,
                   triggered |-> f.triggered,
                   return_period |-> f.return_period,
                   alert_class |-> f.alert_class]]

\* for pcode in get_pcodes(): for lead_time in get_lead_times(): the keys in
\* loop order
AdminLoopKeys(data_units) ==
    LET pcodes == FirstAppearance([i \in DOMAIN data_units |-> data_units[i].pcode], {})
        lead_times == SetToSeqAsc(get_lead_times(data_units))
    IN  Concat([i \in DOMAIN pcodes |->
                    [j \in DOMAIN lead_times |->
                        [pcode |-> pcodes[i], lead_time |-> lead_times[j]]]])

\* __compute_triggers from the first of keys on: acc is the forecast dataset so
\* far and the exception that stopped the loop
RECURSIVE compute_triggers(_, _, _, _, _)
compute_triggers(keys, discharge, thresholds, s, acc) ==
    IF keys = <<>> \/ acc.error # "" THEN acc
    ELSE LET k == Head(keys)
         IN  IF ~AdminHas(thresholds, k.pcode, NoLeadTime)
                \/ ~AdminHas(discharge, k.pcode, k.lead_time)
             THEN [acc EXCEPT !.error = "ValueError"]
             ELSE LET r == AdminForecastUnit(
                            AdminGet(discharge, k.pcode, k.lead_time),
                            AdminGet(thresholds, k.pcode, NoLeadTime).thresholds, s)
                  IN  compute_triggers(
                        Tail(keys), discharge, thresholds, s,
                        IF r.error # "" THEN [acc EXCEPT !.error = r.error]
                        ELSE [acc EXCEPT !.data_units = AdminUpsert(@, r.unit)])

\* __compute_triggers_station from the first of units on
RECURSIVE compute_triggers_station(_, _, _, _)
compute_triggers_station(units, thresholds, s, acc) ==
    IF units = <<>> \/ acc.error # "" THEN acc
    ELSE LET u == Head(units)
         IN  IF ~StationHas(thresholds, u.station_code, NoLeadTime)
             THEN [acc EXCEPT !.error = "ValueError"]
             ELSE LET r == StationForecastUnit(
                            u, StationGet(thresholds, u.station_code, NoLeadTime).thresholds, s)
                  IN  compute_triggers_station(
                        Tail(units), thresholds, s,
                        IF r.error # "" THEN [acc EXCEPT !.error = r.error]
                        ELSE [acc EXCEPT !.data_units = StationUpsert(@, r.unit)])

\* AdminDataSet.get_data_units(lead_time, adm_level) and is_any_triggered
get_data_units(data_units, lead_time, adm_level) ==
    SelectSeq(data_units, LAMBDA x : x.lead_time = lead_time /\ x.adm_level = adm_level)

is_any_triggered(data_units) == \E i \in DOMAIN data_units : data_units[i].triggered

\* "for rp in [10, 20, 50, 75, 100, 200, 500]": the return periods of the global
\* flood maps, in tenths of a year
FloodMapReturnPeriods == <<100, 200, 500, 750, 1000, 2000, 5000>>

\* the smallest flood map whatever the return period of the unit
FloodMapOf_smallest(return_period) == SetMin(Range(FloodMapReturnPeriods))

\* "if rp not in flood_rasters.keys(): rp = min(flood_rasters.keys())"
FloodMapOf(return_period) ==
    IF return_period \in Range(FloodMapReturnPeriods) THEN return_period
    ELSE SetMin(Range(FloodMapReturnPeriods))

\* the raster of one lead time: the flood maps clipped to the triggered units of
\* adm_lvl, merged with the empty raster; without such a unit clips is empty and
\* the raster is a copy of the empty raster
FloodExtentAt(data_units, lead_time, adm_lvl) ==
    LET units == SelectSeq(get_data_units(data_units, lead_time, adm_lvl),
                           LAMBDA x : x.triggered)
    IN  [lead_time |-> lead_time,
         clips |-> [i \in DOMAIN units |->
                        [pcode |-> units[i].pcode,
                         flood_map |-> FloodMapOf(units[i].return_period)]]]

\* __compute_flood_extent taking the first admin level instead of the last
compute_flood_extent_first_level(data_units, adm_levels, flood_maps_found) ==
    IF ~flood_maps_found THEN <<>>
    ELSE LET lead_times == SetToSeqAsc(get_lead_times(data_units))
         IN  [i \in DOMAIN lead_times |->
                FloodExtentAt(data_units, lead_times[i], adm_levels[1])]

\* __compute_flood_extent: the rasters written, one per lead time of the
\* forecast dataset, for the last admin level; none when a flood map is not found
compute_flood_extent(data_units, adm_levels, flood_maps_found) ==
    IF ~flood_maps_found THEN <<>>
    ELSE LET lead_times == SetToSeqAsc(get_lead_times(data_units))
         IN  [i \in DOMAIN lead_times |->
                FloodExtentAt(data_units, lead_times[i], adm_levels[Len(adm_levels)])]

\* the polygons vectorized from one flood extent: the flooded pixels of each of
\* its clips (the empty raster gives none)
ShapesOf(raster) ==
    [k \in DOMAIN raster.clips |->
        [pcode |-> raster.clips[k].pcode, flood_map |-> raster.clips[k].flood_map]]

\* __compute_affected_pop_raster: flood_shapes is created before the loop over
\* the lead times and every lead time appends the shapes of its extent to it; the
\* population raster is clipped to flood_shapes, and written when there is a shape
RECURSIVE affected_pop_rasters(_, _)
affected_pop_rasters(rasters, flood_shapes) ==
    IF rasters = <<>> THEN <<>>
    ELSE LET shapes == flood_shapes \o ShapesOf(Head(rasters))
         IN  <<[lead_time |-> Head(rasters).lead_time,
                written |-> shapes # <<>>,
                flood_shapes |-> shapes]>>
             \o affected_pop_rasters(Tail(rasters), shapes)

compute_affected_pop_raster(rasters) == affected_pop_rasters(rasters, <<>>)

\* a zonal sum that is not a number (an area without a valid pixel, in a table
\* with other areas), and one that cannot be read at all (no table, no row, None)
NotANumber == -1

NoSum == -2

\* int(gdf_aff_pop.loc[pcode, "sum"]), 0 when that raises; sums are in tenths
pop_affected_of(zonal) == IF zonal.aff < 0 THEN 0 ELSE zonal.aff \div 10

\* float(pop_affected / gdf_pop.loc[pcode, "sum"]) * 100.0, in hundredths of a
\* percent, 0.0 when that raises; a division by a sum that is not a number or is
\* zero raises nothing and gives a value that is not finite
pop_affected_perc_of(pop_affected, zonal) ==
    IF zonal.pop = NoSum THEN 0
    ELSE IF zonal.pop = NotANumber \/ zonal.pop = 0 THEN NotANumber
    ELSE (pop_affected * 100000) \div zonal.pop

\* "add affected population to forecast data units": the units of the dataset's
\* admin levels that are triggered get their two fields, in place
compute_affected_pop(data_units, adm_levels, zonal) ==
    [i \in DOMAIN data_units |->
        IF data_units[i].triggered /\ data_units[i].adm_level \in Range(adm_levels)
        THEN [data_units[i] EXCEPT
                !.pop_affected = pop_affected_of(zonal),
                !.pop_affected_perc = pop_affected_perc_of(pop_affected_of(zonal), zonal)]
        ELSE data_units[i]]

\* range(1, 8): the lead times the pipeline extracts and publishes
LastLeadTime == 7

LeadTimes == 1..LastLeadTime

-----------------------------------------------------------------------------
(* floodpipeline/load.py: the publisher, send_to_ibf_api *)

\* alert_class_to_threshold that ignores whether the event is a trigger
alert_class_to_threshold_full(alert_class, triggered) ==
    CASE alert_class = "no" -> [error |-> "", value |-> 0]
      [] alert_class = "min" -> [error |-> "", value |-> 3]
      [] alert_class = "med" -> [error |-> "", value |-> 7]
      [] alert_class = "max" -> [error |-> "", value |-> 10]
      [] OTHER -> [error |-> "ValueError", value |-> 0]

\* alert_class_to_threshold, in tenths: 0.0, 0.3, 0.7, 1.0; any other class
\* raises a ValueError
alert_class_to_threshold(alert_class, triggered) ==
    CASE alert_class = "no" -> [error |-> "", value |-> 0]
      [] alert_class = "min" -> [error |-> "", value |-> 3]
      [] alert_class = "med" -> [error |-> "", value |-> 7]
      [] alert_class = "max" -> [error |-> "", value |-> IF triggered THEN 10 ELSE 7]
      [] OTHER -> [error |-> "ValueError", value |-> 0]

\* the body of a POST request: the fields that vary.  leadTime is the number of
\* the "<n>-day" string, eventName "None" the null event name
Message(endpoint, leadTime, key, adminLevel, eventName, data) ==
    [endpoint |-> endpoint, leadTime |-> leadTime, key |-> key,
     adminLevel |-> adminLevel, eventName |-> eventName, data |-> data]

\* the progress of send_to_ibf_api: what it has posted and logged, its two
\* lists, and the exception that ended it
Raise(st, e) == IF st.error # "" THEN st ELSE [st EXCEPT !.error = e]

\* ibf_api_post_request that does not look at the status code of the answer
Post_ignoring_status(st, m) ==
    IF st.error # "" THEN st
    ELSE IF m.endpoint = st.rejects
    THEN [st EXCEPT !.refused = Append(@, [request |-> m, after |-> Len(st.posted)])]
    ELSE [st EXCEPT !.posted = Append(@, m)]

\* ibf_api_post_request: an answer with status_code >= 400 raises a ValueError;
\* after is the number of requests accepted before the refused one
Post(st, m) ==
    IF st.error # "" THEN st
    ELSE IF m.endpoint = st.rejects
    THEN [st EXCEPT !.error = "ValueError",
                    !.refused = Append(@, [request |-> m, after |-> Len(st.posted)])]
    ELSE [st EXCEPT !.posted = Append(@, m)]

\* the lead times a scan "for lead_time in range(1, 8): if ...: break" visits
Scanned(hits) == IF hits = {} THEN LeadTimes ELSE 1..SetMin(hits)

\* EventOf with one scan for the first lead time that is triggered or alerted
EventOf_single_scan(forecast_station_data, station_code, trigger_on_lead_time) ==
    LET triggered_at == {l \in LeadTimes :
            StationGet(forecast_station_data, station_code, l).triggered}
        alert_at == {l \in LeadTimes :
            StationGet(forecast_station_data, station_code, l).alert_class # "no"}
        first == SetMin(triggered_at \cup alert_at)
    IN  IF triggered_at \cup alert_at = {}
        THEN [error |-> "", lead_time |-> 0, event_type |-> "none"]
        ELSE [error |-> "", lead_time |-> first,
              event_type |-> IF first \in triggered_at /\ first <= trigger_on_lead_time
                             THEN "trigger" ELSE "alert"]

\* EventOf without the scan for alert classes
EventOf_triggers_only(forecast_station_data, station_code, trigger_on_lead_time) ==
    LET triggered_at == {l \in LeadTimes :
            StationGet(forecast_station_data, station_code, l).triggered}
    IN  IF triggered_at = {}
        THEN [error |-> "", lead_time |-> 0, event_type |-> "none"]
        ELSE [error |-> "", lead_time |-> SetMin(triggered_at),
              event_type |-> IF SetMin(triggered_at) > trigger_on_lead_time
                             THEN "alert" ELSE "trigger"]

\* "determine event lead time": the two scans and the downgrade of a trigger
\* beyond trigger_on_lead_time; lead_time 0 is None
EventOf(forecast_station_data, station_code, trigger_on_lead_time) ==
    LET has(l) == StationHas(forecast_station_data, station_code, l)
        triggered_at == {l \in LeadTimes :
            has(l) /\ StationGet(forecast_station_data, station_code, l).triggered}
        alert_at == {l \in LeadTimes :
            has(l) /\ StationGet(forecast_station_data, station_code, l).alert_class # "no"}
    IN  IF \E l \in Scanned(triggered_at) : ~has(l)
        THEN [error |-> "ValueError", lead_time |-> 0, event_type |-> "none"]
        ELSE IF triggered_at # {}
        THEN [error |-> "", lead_time |-> SetMin(triggered_at),
              event_type |-> IF SetMin(triggered_at) > trigger_on_lead_time
                             THEN "alert" ELSE "trigger"]
        ELSE IF \E l \in Scanned(alert_at) : ~has(l)
        THEN [error |-> "ValueError", lead_time |-> 0, event_type |-> "none"]
        ELSE IF alert_at # {}
        THEN [error |-> "", lead_time |-> SetMin(alert_at), event_type |-> "alert"]
        ELSE [error |-> "", lead_time |-> 0, event_type |-> "none"]

\* the indicators of the exposure records
indicators == <<"population_affected", "population_affected_percentage", "alert_threshold">>

\* the amount of an indicator for an admin forecast unit
IndicatorAmount(indicator, forecast_data_unit, triggered) ==
    CASE indicator = "population_affected" ->
            [error |-> "", value |-> forecast_data_unit.pop_affected]
      [] indicator = "population_affected_percentage" ->
            [error |-> "", value |-> forecast_data_unit.pop_affected_perc]
      [] indicator = "alert_threshold" ->
            alert_class_to_threshold(forecast_data_unit.alert_class, triggered)

\* exposure_pcodes.append({"placeCode": pcode, "amount": amount}) and
\* processed_pcodes.append(pcode), unless computing the amount raised
AppendExposure(acc, pcode, amount) ==
    IF amount.error # "" THEN [acc EXCEPT !.error = amount.error]
    ELSE [acc EXCEPT
            !.exposure_pcodes = Append(@, [placeCode |-> pcode, amount |-> amount.value]),
            !.processed_pcodes = Append(@, pcode)]

\* for pcode in forecast_station.pcodes[adm_level]: the exposure records of one
\* body, the place codes processed, the exception raised
RECURSIVE ExposurePlaceCodes(_, _, _, _, _, _)
ExposurePlaceCodes(pcodes, indicator, forecast_data, lead_time, triggered, acc) ==
    IF pcodes = <<>> \/ acc.error # "" THEN acc
    ELSE IF ~AdminHas(forecast_data, Head(pcodes), lead_time)
    THEN [acc EXCEPT !.error = "ValueError"]
    ELSE ExposurePlaceCodes(
            Tail(pcodes), indicator, forecast_data, lead_time, triggered,
            AppendExposure(acc, Head(pcodes),
                IndicatorAmount(indicator,
                                AdminGet(forecast_data, Head(pcodes), lead_time),
                                triggered)))

\* ExposureBodies for the first admin level of the station only
ExposureBodies_first_level(pcodes) ==
    [i \in DOMAIN indicators |->
        [indicator |-> indicators[i], adm_level |-> pcodes[1][1], pcodes |-> pcodes[1][2]]]

\* "for indicator in indicators: for adm_level in forecast_station.pcodes.keys()":
\* the bodies to post, in loop order
ExposureBodies(pcodes) ==
    Concat([i \in DOMAIN indicators |->
        [j \in DOMAIN pcodes |->
            [indicator |-> indicators[i], adm_level |-> pcodes[j][1],
             pcodes |-> pcodes[j][2]]]])

\* the POST of one exposure body, once its records r are computed
PostExposure(st, body, lead_time, event_name, r) ==
    IF r.error # ""
    THEN [st EXCEPT !.error = r.error, !.processed_pcodes = r.processed_pcodes]
    ELSE Post([st EXCEPT !.processed_pcodes = r.processed_pcodes],
              Message("admin-area-dynamic-data/exposure", lead_time, body.indicator,
                      body.adm_level, event_name, r.exposure_pcodes))

\* "send exposure data": the exposure bodies of one event
RECURSIVE SendExposures(_, _, _, _, _, _)
SendExposures(st, bodies, forecast_data, lead_time_event, event_type, event_name) ==
    IF bodies = <<>> \/ st.error # "" THEN st
    ELSE SendExposures(
            PostExposure(st, Head(bodies), lead_time_event, event_name,
                ExposurePlaceCodes(Head(bodies).pcodes, Head(bodies).indicator,
                                   forecast_data, lead_time_event, event_type = "trigger",
                                   [error |-> "", exposure_pcodes |-> <<>>,
                                    processed_pcodes |-> st.processed_pcodes])),
            Tail(bodies), forecast_data, lead_time_event, event_type, event_name)

\* processed_pcodes = list(set(processed_pcodes))
DedupPcodes(st) ==
    IF st.error # "" THEN st
    ELSE [st EXCEPT !.processed_pcodes = FirstAppearance(@, {})]

\* triggers_per_lead_time that raises the flags at the event lead time only
triggers_per_lead_time_at_event(event_type, lead_time_event) ==
    [lead_time \in LeadTimes |->
        [leadTime |-> lead_time,
         triggered |-> /\ (event_type = "trigger" \/ event_type = "alert")
                       /\ lead_time = lead_time_event,
         thresholdReached |-> event_type = "trigger" /\ lead_time = lead_time_event]]

\* "send trigger per lead time": the flags of lead times 1..7
triggers_per_lead_time(event_type, lead_time_event) ==
    [lead_time \in LeadTimes |->
        [leadTime |-> lead_time,
         triggered |-> /\ (event_type = "trigger" \/ event_type = "alert")
                       /\ lead_time >= lead_time_event,
         thresholdReached |-> event_type = "trigger" /\ lead_time >= lead_time_event]]

\* the keys of the station messages
station_forecasts == <<"forecastLevel", "eapAlertClass", "forecastReturnPeriod", "triggerLevel">>

\* StationValue that posts the alert class of every event unchanged
StationValue_unchanged(indicator, discharge_unit, forecast_unit, thresholds, trigger_on_return_period, event_type) ==
    CASE indicator = "forecastLevel" ->
            [error |-> "",
             value |-> discharge_unit.discharge_mean.num \div discharge_unit.discharge_mean.den]
      [] indicator = "eapAlertClass" ->
            [error |-> "", value |-> forecast_unit.alert_class]
      [] indicator = "forecastReturnPeriod" ->
            [error |-> "", value |-> forecast_unit.return_period]
      [] indicator = "triggerLevel" ->
            IF HasThreshold(thresholds, trigger_on_return_period)
            THEN [error |-> "", value |-> get_threshold(thresholds, trigger_on_return_period)]
            ELSE [error |-> "ValueError", value |-> 0]

\* the value of a station key; event_type is "none" for a station without event
StationValue(indicator, discharge_unit, forecast_unit, thresholds, trigger_on_return_period, event_type) ==
    CASE indicator = "forecastLevel" ->
            [error |-> "",
             value |-> discharge_unit.discharge_mean.num \div discharge_unit.discharge_mean.den]
      [] indicator = "eapAlertClass" ->
            [error |-> "",
             value |-> IF event_type = "alert" /\ forecast_unit.alert_class = "max"
                       THEN "med" ELSE forecast_unit.alert_class]
      [] indicator = "forecastReturnPeriod" ->
            [error |-> "", value |-> forecast_unit.return_period]
      [] indicator = "triggerLevel" ->
            IF HasThreshold(thresholds, trigger_on_return_period)
            THEN [error |-> "", value |-> get_threshold(thresholds, trigger_on_return_period)]
            ELSE [error |-> "ValueError", value |-> 0]

\* one pass of "for indicator in station_forecasts.keys()" for an event: the POST
\* and processed_stations.append(station_code)
Appended(st, station_code) ==
    IF st.error # "" THEN st
    ELSE [st EXCEPT !.processed_stations = Append(@, station_code)]

PostStationValue(st, indicator, station_code, lead_time_event, v) ==
    IF st.error # "" THEN st
    ELSE IF v.error # "" THEN [st EXCEPT !.error = v.error]
    ELSE Appended(Post(st, Message("point-data/dynamic", lead_time_event, indicator,
                                   0, "", <<[fid |-> station_code, value |-> v.value]>>)),
                  station_code)

RECURSIVE SendStation(_, _, _, _, _, _, _, _, _)
SendStation(st, keys, station_code, lead_time_event, event_type, discharge_unit, forecast_unit, thresholds, trigger_on_return_period) ==
    IF keys = <<>> \/ st.error # "" THEN st
    ELSE SendStation(
            PostStationValue(st, Head(keys), station_code, lead_time_event,
                StationValue(Head(keys), discharge_unit, forecast_unit, thresholds,
                             trigger_on_return_period, event_type)),
            Tail(keys), station_code, lead_time_event, event_type, discharge_unit,
            forecast_unit, thresholds, trigger_on_return_period)

\* "GloFAS station data" of an event: the discharge unit at the event lead time,
\* then one message per key
SendStationOf(st, station_code, ev, d, forecast_unit) ==
    IF st.error # "" THEN st
    ELSE IF ~StationHas(d.discharge_station_data, station_code, ev.lead_time)
    THEN Raise(st, "ValueError")
    ELSE SendStation(st, station_forecasts, station_code, ev.lead_time, ev.event_type,
                     StationGet(d.discharge_station_data, station_code, ev.lead_time),
                     forecast_unit,
                     StationGet(d.threshold_station_data, station_code, NoLeadTime).thresholds,
                     d.trigger_on_return_period)

\* logging.info(f"event {event_name}, type '{event_type}', lead time {lead_time_event}")
LogEvent(st, event_name, ev) ==
    [st EXCEPT !.log = Append(@, [event_name |-> event_name, event_type |-> ev.event_type,
                                  lead_time |-> ev.lead_time])]

\* the event loop's body from the log line on: exposures, flags per lead time,
\* station messages
SendEventBody(st, station_code, ev, d, event_name, forecast_unit) ==
    IF ~StationHas(d.threshold_station_data, station_code, NoLeadTime)
    THEN Raise(LogEvent(st, event_name, ev), "ValueError")
    ELSE SendStationOf(
            Post(DedupPcodes(
                    SendExposures(LogEvent(st, event_name, ev),
                                  ExposureBodies(forecast_unit.pcodes), d.forecast_data,
                                  ev.lead_time, ev.event_type, event_name)),
                 Message("event/triggers-per-leadtime", 0, "", 0, event_name,
                         triggers_per_lead_time(ev.event_type, ev.lead_time))),
            station_code, ev, d, forecast_unit)

\* event_name = str(station_name) if station_name else str(station_code)
EventName(station_name, station_code) ==
    IF station_name # "" THEN station_name ELSE station_code

\* the event loop's body once the event ev of the station is known; d holds the
\* arguments of send_to_ibf_api and the settings it reads
SendEventOf(st, station_code, ev, d) ==
    IF ev.error # "" THEN Raise(st, ev.error)
    ELSE IF ev.event_type = "none" THEN st
    ELSE IF ~StationHas(d.forecast_station_data, station_code, d.trigger_on_lead_time)
    THEN Raise(st, "ValueError")
    ELSE SendEventBody(
            st, station_code, ev, d,
            EventName(StationGet(d.forecast_station_data, station_code,
                                 d.trigger_on_lead_time).station_name, station_code),
            StationGet(d.forecast_station_data, station_code, ev.lead_time))

\* "for station_code in forecast_station_data.get_station_codes()": the event loop
RECURSIVE EventLoop(_, _, _)
EventLoop(st, station_codes, d) ==
    IF station_codes = <<>> \/ st.error # "" THEN st
    ELSE EventLoop(
            SendEventOf(st, Head(station_codes),
                        EventOf(d.forecast_station_data, Head(station_codes),
                                d.trigger_on_lead_time), d),
            Tail(station_codes), d)

\* "flood extent raster": flood_extent is "None", or a path whose file "exists"
\* or is "missing"; the request carries the file and no lead time
SendRaster(st, flood_extent) ==
    IF st.error # "" \/ flood_extent = "None" THEN st
    ELSE IF flood_extent = "missing" THEN Raise(st, "FileNotFoundError")
    ELSE Post(st, Message("admin-area-dynamic-data/raster/floods", NoLeadTime, "", 0, "",
                          <<>>))

\* "for pcode in forecast_data.get_pcodes(adm_level=adm_level)" of the empty
\* exposure data: the units at trigger_on_lead_time, triggered=False
RECURSIVE EmptyExposurePlaceCodes(_, _, _, _, _, _)
EmptyExposurePlaceCodes(pcodes, indicator, forecast_data, trigger_on_lead_time, done, acc) ==
    IF pcodes = <<>> \/ acc.error # "" THEN acc
    ELSE IF Head(pcodes) \in done
    THEN EmptyExposurePlaceCodes(Tail(pcodes), indicator, forecast_data,
                                 trigger_on_lead_time, done, acc)
    ELSE IF ~AdminHas(forecast_data, Head(pcodes), trigger_on_lead_time)
    THEN [acc EXCEPT !.error = "ValueError"]
    ELSE EmptyExposurePlaceCodes(
            Tail(pcodes), indicator, forecast_data, trigger_on_lead_time, done,
            [AppendExposure(acc, Head(pcodes),
                IndicatorAmount(indicator,
                                AdminGet(forecast_data, Head(pcodes), trigger_on_lead_time),
                                FALSE))
             EXCEPT !.processed_pcodes = acc.processed_pcodes])

\* the pcodes of a level in the order of the dataset's list
PcodesOfLevel(data_units, adm_level) ==
    FirstAppearance(
        [i \in DOMAIN SelectSeq(data_units, LAMBDA x : x.adm_level = adm_level) |->
            SelectSeq(data_units, LAMBDA x : x.adm_level = adm_level)[i].pcode], {})

\* "for indicator in indicators: for adm_level in forecast_data.adm_levels"
EmptyExposureBodies(forecast_data, adm_levels) ==
    Concat([i \in DOMAIN indicators |->
        [j \in DOMAIN adm_levels |->
            [indicator |-> indicators[i], adm_level |-> adm_levels[j],
             pcodes |-> PcodesOfLevel(forecast_data, adm_levels[j])]]])

RECURSIVE SendEmptyExposures(_, _, _, _)
SendEmptyExposures(st, bodies, forecast_data, trigger_on_lead_time) ==
    IF bodies = <<>> \/ st.error # "" THEN st
    ELSE SendEmptyExposures(
            PostExposure(st, Head(bodies), 1, "None",
                EmptyExposurePlaceCodes(Head(bodies).pcodes, Head(bodies).indicator,
                                        forecast_data, trigger_on_lead_time,
                                        Range(st.processed_pcodes),
                                        [error |-> "", exposure_pcodes |-> <<>>,
                                         processed_pcodes |-> st.processed_pcodes])),
            Tail(bodies), forecast_data, trigger_on_lead_time)

\* "send empty exposure data": if len(processed_pcodes) == 0
SendEmpty(st, d) ==
    IF st.error # "" \/ Len(st.processed_pcodes) # 0 THEN st
    ELSE SendEmptyExposures(st, EmptyExposureBodies(d.forecast_data, d.adm_levels),
                            d.forecast_data, d.trigger_on_lead_time)

\* station_forecasts[indicator].append(station_data) for the stations not in
\* processed_stations: the values at trigger_on_lead_time
RECURSIVE OtherStations(_, _, _, _, _)
OtherStations(station_codes, indicator, done, d, acc) ==
    IF station_codes = <<>> \/ acc.error # "" THEN acc
    ELSE IF Head(station_codes) \in done
    THEN OtherStations(Tail(station_codes), indicator, done, d, acc)
    ELSE IF \/ ~StationHas(d.discharge_station_data, Head(station_codes),
                           d.trigger_on_lead_time)
            \/ ~StationHas(d.forecast_station_data, Head(station_codes),
                           d.trigger_on_lead_time)
            \/ ~StationHas(d.threshold_station_data, Head(station_codes), NoLeadTime)
    THEN [acc EXCEPT !.error = "ValueError"]
    ELSE OtherStations(
            Tail(station_codes), indicator, done, d,
            (IF StationValue(indicator,
                    StationGet(d.discharge_station_data, Head(station_codes),
                               d.trigger_on_lead_time),
                    StationGet(d.forecast_station_data, Head(station_codes),
                               d.trigger_on_lead_time),
                    StationGet(d.threshold_station_data, Head(station_codes),
                               NoLeadTime).thresholds,
                    d.trigger_on_return_period, "none").error # ""
             THEN [acc EXCEPT !.error = "ValueError"]
             ELSE [acc EXCEPT !.data = Append(@,
                    [fid |-> Head(station_codes),
                     value |-> StationValue(indicator,
                        StationGet(d.discharge_station_data, Head(station_codes),
                                   d.trigger_on_lead_time),
                        StationGet(d.forecast_station_data, Head(station_codes),
                                   d.trigger_on_lead_time),
                        StationGet(d.threshold_station_data, Head(station_codes),
                                   NoLeadTime).thresholds,
                        d.trigger_on_return_period, "none").value])]))

PostOtherStations(st, indicator, r) ==
    IF r.error # "" THEN Raise(st, r.error)
    ELSE Post(st, Message("point-data/dynamic", LastLeadTime, indicator, 0, "", r.data))

\* "send GloFAS station data for all other stations": one message per key, with
\* leadTime "7-day"
RECURSIVE SendOthers(_, _, _, _)
SendOthers(st, keys, station_codes, d) ==
    IF keys = <<>> \/ st.error # "" THEN st
    ELSE SendOthers(
            PostOtherStations(st, Head(keys),
                OtherStations(station_codes, Head(keys), Range(st.processed_stations), d,
                              [error |-> "", data |-> <<>>])),
            Tail(keys), station_codes, d)

\* "close events"
CloseEvents(st) == Post(st, Message("event/close-events", 0, "", 0, "", <<>>))

\* send_to_ibf_api that posts the flood extent raster after the station data of
\* the other stations
send_to_ibf_api_raster_late(station_codes, flood_extent, d) ==
    CloseEvents(
        SendRaster(
            SendOthers(
                SendEmpty(
                    EventLoop([posted |-> <<>>, log |-> <<>>, processed_stations |-> <<>>,
                               processed_pcodes |-> <<>>, error |-> "",
                               rejects |-> d.rejects, refused |-> <<>>],
                              station_codes, d),
                    d),
                station_forecasts, station_codes, d),
            flood_extent))

\* send_to_ibf_api: station_codes is the order in which get_station_codes() lists
\* the stations
send_to_ibf_api(station_codes, flood_extent, d) ==
    CloseEvents(
        SendOthers(
            SendEmpty(
                SendRaster(
                    EventLoop([posted |-> <<>>, log |-> <<>>, processed_stations |-> <<>>,
                               processed_pcodes |-> <<>>, error |-> "",
                               rejects |-> d.rejects, refused |-> <<>>],
                              station_codes, d),
                    flood_extent),
                d),
            station_forecasts, station_codes, d))

\* the orders in which a set can be listed
Orders(S) ==
    {f \in [1..Cardinality(S) -> S] : \A x \in S : \E i \in DOMAIN f : f[i] = x}

-----------------------------------------------------------------------------
(* The country of the run: configuration, thresholds, discharge *)

\* a configuration value that is a number, and one that is a dictionary
Scalar(v) == [dict |-> FALSE, items |-> <<>>, value |-> v]

Dict(items) == [dict |-> TRUE, items |-> items, value |-> 0]

Policy(tlt, trp, tmp, mode, aorp, aomp) ==
    [trigger_on_lead_time |-> tlt,
     trigger_on_return_period |-> trp,
     trigger_on_minimum_probability |-> tmp,
     classify_alert_on |-> mode,
     alert_on_return_period |-> aorp,
     alert_on_minimum_probability |-> aomp,
     admin_levels |-> <<1, 2>>]

PolicyReturnPeriod ==
    Policy(3, 50, 60, "return-period",
           Dict(<< <<"min", 20>>, <<"med", 50>> >>), Scalar(50))

PolicyProbability ==
    Policy(4, 50, 60, "probability",
           Scalar(50), Dict(<< <<"max", 90>>, <<"min", 30>>, <<"med", 50>> >>))

PolicyDisableReturnPeriods ==
    Policy(3, 50, 50, "disable",
           Dict(<< <<"min", 20>>, <<"med", 50>> >>), Scalar(50))

PolicyDisableProbabilities ==
    Policy(3, 20, 60, "disable",
           Scalar(20), Dict(<< <<"med", 60>>, <<"max", 90>>, <<"min", 30>> >>))

Threshold(rp, v) == [return_period |-> rp, threshold_value |-> v]

\* thresholds as add_flood_thresholds.py writes them: one per return period,
\* in ascending order of return period; the values need not rise
ThresholdsTwo == << Threshold(20, 10), Threshold(50, 20) >>

ThresholdsThree == << Threshold(20, 10), Threshold(50, 20), Threshold(100, 12) >>

\* the admin areas and the stations of the country
AdminAreas == << [adm_level |-> 1, pcode |-> "a1"], [adm_level |-> 2, pcode |-> "b1"] >>

StationInfo ==
    << [station_code |-> "s1", station_name |-> "Sone",
        pcodes |-> << <<1, <<"a1">> >>, <<2, <<"b1">> >> >>],
       [station_code |-> "s2", station_name |-> "",
        pcodes |-> << <<2, <<>> >>, <<1, <<>> >> >>] >>

ThresholdAdminUnits(thresholds) ==
    [i \in DOMAIN AdminAreas |->
        [adm_level |-> AdminAreas[i].adm_level, pcode |-> AdminAreas[i].pcode,
         thresholds |-> thresholds]]

ThresholdStationUnits(thresholds) ==
    [i \in DOMAIN StationInfo |->
        [station_code |-> StationInfo[i].station_code,
         station_name |-> StationInfo[i].station_name,
         pcodes |-> StationInfo[i].pcodes,
         thresholds |-> thresholds]]

\* the discharge of a run: the base flow everywhere, and up to MaxBumps cells
\* (a unit at a lead time) that carry another ensemble
UnitNames == <<"s1", "s2", "a1", "b1">>

\* the lead times a cell can have: the first, the last, and the two around the
\* trigger lead times of the policies
BumpLeadTimes == <<1, 3, 4, 7>>

Cells == 1..(Len(UnitNames) * Len(BumpLeadTimes))

CellUnit(c) == UnitNames[((c - 1) \div Len(BumpLeadTimes)) + 1]

CellLead(c) == BumpLeadTimes[((c - 1) % Len(BumpLeadTimes)) + 1]

BaseEnsemble == [i \in 1..NoEns |-> 1]

\* every member between the two lowest thresholds; the last j members above the
\* thresholds and the others exactly at the lowest threshold value
BumpEnsembles ==
    {[i \in 1..NoEns |-> 15]}
        \cup {[i \in 1..NoEns |-> IF i > NoEns - j THEN 25 ELSE 10] : j \in 1..NoEns}

RECURSIVE Scenarios(_)
Scenarios(n) ==
    IF n = 0 THEN {{}}
    ELSE LET prev == Scenarios(n - 1)
         IN  prev \cup UNION {
                {sc \cup {[cell |-> c, ens |-> e]} :
                    c \in {x \in Cells : \A b \in sc : b.cell < x}, e \in BumpEnsembles}
                : sc \in {x \in prev : Cardinality(x) = n - 1}}

EnsembleAt(scenario, unit, lead_time) ==
    LET hit == {b \in scenario : CellUnit(b.cell) = unit /\ CellLead(b.cell) = lead_time}
    IN  IF hit = {} THEN BaseEnsemble ELSE (CHOOSE b \in hit : TRUE).ens

-----------------------------------------------------------------------------
(* floodpipeline/extract.py: extract_glofas_data *)

\* DischargeDataUnit / DischargeStationDataUnit.compute_mean, as a fraction
compute_mean(discharge_ensemble) ==
    [num |-> SeqSum(discharge_ensemble), den |-> Len(discharge_ensemble)]

RECURSIVE AdminUpsertAll(_, _)
AdminUpsertAll(units, data_units) ==
    IF units = <<>> THEN data_units
    ELSE AdminUpsertAll(Tail(units), AdminUpsert(data_units, Head(units)))

RECURSIVE StationUpsertAll(_, _)
StationUpsertAll(units, data_units) ==
    IF units = <<>> THEN data_units
    ELSE StationUpsertAll(Tail(units), StationUpsert(data_units, Head(units)))

\* for adm_level: for lead_time, pcode in product(range(1, 8), pcodes): upsert
ExtractedAdminUnits(scenario, adm_levels) ==
    Concat([a \in DOMAIN adm_levels |->
        Concat([lead_time \in LeadTimes |->
            LET areas == SelectSeq(AdminAreas, LAMBDA x : x.adm_level = adm_levels[a])
            IN  [i \in DOMAIN areas |->
                    [adm_level |-> areas[i].adm_level,
                     pcode |-> areas[i].pcode,
                     lead_time |-> lead_time,
                     discharge_ensemble |-> EnsembleAt(scenario, areas[i].pcode, lead_time),
                     discharge_mean |->
                        compute_mean(EnsembleAt(scenario, areas[i].pcode, lead_time))]]])])

\* for station_code: for lead_time in range(1, 8): upsert
ExtractedStationUnits(scenario, stations) ==
    Concat([i \in DOMAIN stations |->
        [lead_time \in LeadTimes |->
            [station_code |-> stations[i].station_code,
             station_name |-> stations[i].station_name,
             pcodes |-> stations[i].pcodes,
             lead_time |-> lead_time,
             discharge_ensemble |-> EnsembleAt(scenario, stations[i].station_code, lead_time),
             discharge_mean |->
                compute_mean(EnsembleAt(scenario, stations[i].station_code, lead_time))]]])

\* the samples of a cell appended file by file, "for ensemble in range(0,
\* no_ens)", skipping the members whose sliced file does not exist
RECURSIVE SamplesFrom(_, _, _)
SamplesFrom(ensemble, member, available) ==
    IF member >= Len(ensemble) THEN <<>>
    ELSE (IF member \in available THEN <<ensemble[member + 1]>> ELSE <<>>)
            \o SamplesFrom(ensemble, member + 1, available)

\* the loop padding the vector with 0.0 for a member whose file does not exist
Samples_padded(ensemble, available) ==
    [i \in DOMAIN ensemble |-> IF (i - 1) \in available THEN ensemble[i] ELSE 0]

Samples(ensemble, available) == SamplesFrom(ensemble, 0, available)

\* the units built from the files that exist
UnitsOfAvailable(units, available) ==
    [i \in DOMAIN units |->
        [units[i] EXCEPT
            !.discharge_ensemble = Samples(units[i].discharge_ensemble, available),
            !.discharge_mean = compute_mean(Samples(units[i].discharge_ensemble, available))]]

\* logging.warning("Country-specific NetCDF file of ensemble {ensemble} not
\* found, skipping"), one per missing member, in the loop of every admin level
\* and in the loop of the stations
RECURSIVE NotFoundWarnings(_, _, _)
NotFoundWarnings(member, no_ens, available) ==
    IF member >= no_ens THEN <<>>
    ELSE (IF member \in available THEN <<>>
          ELSE <<[warning |-> "not found, skipping", ensemble |-> member]>>)
            \o NotFoundWarnings(member + 1, no_ens, available)

\* extract_glofas_data with the sliced files of the members in available: the
\* units stored and the warnings logged; discharges[key] raises a KeyError in the
\* first upsert when no file was read
extract_glofas_data(scenario, adm_levels, stations, available) ==
    LET warnings == NotFoundWarnings(0, NoEns, available)
    IN  IF available = {}
        THEN [error |-> "KeyError", discharge_admin |-> <<>>, discharge_station |-> <<>>,
              log |-> warnings]
        ELSE [error |-> "",
              discharge_admin |->
                AdminUpsertAll(UnitsOfAvailable(
                    ExtractedAdminUnits(scenario, adm_levels), available), <<>>),
              discharge_station |->
                StationUpsertAll(UnitsOfAvailable(
                    ExtractedStationUnits(scenario, stations), available), <<>>),
              log |-> Concat([a \in DOMAIN adm_levels |-> warnings]) \o warnings]

-----------------------------------------------------------------------------
(* The run *)

\* the configurations of the runs: a policy per classification mode, every map
\* with values that rise with the class, and thresholds in ascending order
Configurations ==
    { <<PolicyReturnPeriod, ThresholdsThree>>,
      <<PolicyProbability, ThresholdsTwo>>,
      <<PolicyDisableReturnPeriods, ThresholdsThree>>,
      <<PolicyDisableProbabilities, ThresholdsTwo>> }

InitWith(configurations, paths) ==
    /\ countries = <<>>
    /\ aff_pop_rasters = <<>>
    /\ rejects \in paths
    /\ refused = <<>>
    /\ flood_extent_rasters = <<>>
    /\ \E c \in configurations :
        /\ settings = c[1]
        /\ threshold_admin = ThresholdAdminUnits(c[2])
        /\ threshold_station = ThresholdStationUnits(c[2])
    /\ discharge_admin = <<>>
    /\ discharge_station = <<>>
    /\ forecast_admin = <<>>
    /\ forecast_station = <<>>
    /\ pc = "extract"
    /\ error = ""
    /\ processed_stations = <<>>
    /\ processed_pcodes = <<>>
    /\ posted = <<>>
    /\ log = <<>>

Init == InitWith(Configurations, {""})

\* Extract.extract_glofas_data: the discharge datasets of the run
Extract ==
    /\ pc = "extract"
    /\ \E scenario \in Scenarios(MaxBumps) :
        /\ discharge_admin' =
                AdminUpsertAll(ExtractedAdminUnits(scenario, settings.admin_levels), <<>>)
        /\ discharge_station' =
                StationUpsertAll(ExtractedStationUnits(scenario, threshold_station), <<>>)
    /\ pc' = "forecast_admin"
    /\ UNCHANGED <<settings, threshold_admin, threshold_station, forecast_admin,
                   forecast_station, error, processed_stations,
                   processed_pcodes, posted, log, rejects, countries, aff_pop_rasters, refused,
                   flood_extent_rasters>>

\* Forecast.compute_forecast_admin: __compute_triggers
ComputeTriggers ==
    /\ pc = "forecast_admin"
    /\ \E r \in {compute_triggers(AdminLoopKeys(discharge_admin), discharge_admin,
                                  threshold_admin, settings,
                                  [data_units |-> forecast_admin, error |-> ""])} :
           /\ forecast_admin' = r.data_units
           /\ error' = r.error
           /\ pc' = IF r.error = "" THEN "flood_extent" ELSE "error"
    /\ UNCHANGED <<settings, threshold_admin, threshold_station, discharge_admin,
                   discharge_station, forecast_station,
                   processed_stations, processed_pcodes, posted, log, rejects, countries, aff_pop_rasters, refused,
                   flood_extent_rasters>>

\* whether get_from_blob finds the global flood maps of the country
FloodMapsFound == {TRUE}

\* the zonal sums of the affected population raster and of the population
\* raster over an area, in tenths: the first is a clip of the second, so it is
\* the smaller one; every area of the run has the same sums
ZonalSums ==
    { [aff |-> NoSum, pop |-> NoSum],
      [aff |-> 25, pop |-> 100],
      [aff |-> 100, pop |-> 100],
      [aff |-> NotANumber, pop |-> NotANumber] }

\* Forecast.compute_forecast_admin: __compute_flood_extent
ComputeFloodExtent ==
    /\ pc = "flood_extent"
    /\ \E flood_maps_found \in FloodMapsFound :
        flood_extent_rasters' =
            compute_flood_extent(forecast_admin, settings.admin_levels, flood_maps_found)
    /\ pc' = "affected_pop"
    /\ UNCHANGED <<settings, threshold_admin, threshold_station, discharge_admin,
                   discharge_station, forecast_admin, forecast_station, error,
                   processed_stations, processed_pcodes, posted, log, rejects, countries, aff_pop_rasters, refused>>

\* Forecast.compute_forecast_admin: "if is_any_triggered(): __compute_affected_pop()";
\* without the rasters of the lead times, opening the first one fails
ComputeAffectedPop ==
    /\ pc = "affected_pop"
    /\ IF ~is_any_triggered(forecast_admin)
       THEN /\ pc' = "forecast_station"
            /\ UNCHANGED <<forecast_admin, error, aff_pop_rasters>>
       ELSE IF flood_extent_rasters = <<>>
       THEN /\ pc' = "error"
            /\ error' = "RasterioIOError"
            /\ UNCHANGED <<forecast_admin, aff_pop_rasters>>
       ELSE /\ \E zonal \in ZonalSums :
                forecast_admin' =
                    compute_affected_pop(forecast_admin, settings.admin_levels, zonal)
            /\ aff_pop_rasters' = compute_affected_pop_raster(flood_extent_rasters)
            /\ pc' = "forecast_station"
            /\ UNCHANGED error
    /\ UNCHANGED <<settings, threshold_admin, threshold_station, discharge_admin,
                   discharge_station, forecast_station,
                   processed_stations, processed_pcodes, posted, log, rejects, countries, refused,
                   flood_extent_rasters>>

\* Forecast.compute_forecast_station: __compute_triggers_station
ComputeTriggersStation ==
    /\ pc = "forecast_station"
    /\ \E r \in {compute_triggers_station(discharge_station, threshold_station,
                                          settings,
                                          [data_units |-> forecast_station, error |-> ""])} :
           /\ forecast_station' = r.data_units
           /\ error' = r.error
           /\ pc' = IF r.error = "" THEN "send" ELSE "error"
    /\ UNCHANGED <<settings, threshold_admin, threshold_station, discharge_admin,
                   discharge_station, forecast_admin,
                   processed_stations, processed_pcodes, posted, log, rejects, countries, aff_pop_rasters, refused,
                   flood_extent_rasters>>

\* Load.send_to_ibf_api with the datasets of the run
SendToIbfApi ==
    /\ pc = "send"
    /\ \E station_codes \in Orders(get_station_codes(forecast_station)),
          flood_extent \in {"None", "exists", "missing"} :
        \E r \in {send_to_ibf_api(station_codes, flood_extent,
                    [forecast_data |-> forecast_admin,
                     forecast_station_data |-> forecast_station,
                     discharge_station_data |-> discharge_station,
                     threshold_station_data |-> threshold_station,
                     trigger_on_lead_time |-> settings.trigger_on_lead_time,
                     trigger_on_return_period |-> settings.trigger_on_return_period,
                     adm_levels |-> settings.admin_levels,
                     rejects |-> rejects])} :
            /\ refused' = r.refused
            /\ posted' = r.posted
            /\ log' = r.log
            /\ processed_stations' = r.processed_stations
            /\ processed_pcodes' = r.processed_pcodes
            /\ error' = r.error
            /\ pc' = IF r.error = "" THEN "done" ELSE "error"
    /\ UNCHANGED <<settings, threshold_admin, threshold_station, discharge_admin,
                   discharge_station, forecast_admin, forecast_station, rejects, countries, aff_pop_rasters,
                   flood_extent_rasters>>

Next ==
    \/ Extract
    \/ ComputeTriggers
    \/ ComputeFloodExtent
    \/ ComputeAffectedPop
    \/ ComputeTriggersStation
    \/ SendToIbfApi

Spec == Init /\ [][Next]_vars

\* the runs whose configuration need not be one the repository's own tools
\* write: thresholds stored in descending order of return period, policy maps
\* whose values do not rise with the class, a class outside the vocabulary
ThresholdsDescending == << Threshold(50, 20), Threshold(20, 10) >>

PolicyReturnPeriodUnordered ==
    Policy(3, 50, 60, "return-period",
           Dict(<< <<"min", 50>>, <<"med", 20>> >>), Scalar(50))

PolicyProbabilityUnordered ==
    Policy(4, 50, 60, "probability",
           Scalar(50), Dict(<< <<"min", 60>>, <<"med", 30>> >>))

PolicyUnknownClass ==
    Policy(3, 50, 60, "return-period",
           Dict(<< <<"min", 20>>, <<"high", 50>> >>), Scalar(50))

AnyConfigurations ==
    { <<PolicyReturnPeriod, ThresholdsThree>>,
      <<PolicyProbability, ThresholdsTwo>>,
      <<PolicyReturnPeriod, ThresholdsDescending>>,
      <<PolicyReturnPeriodUnordered, ThresholdsTwo>>,
      <<PolicyProbabilityUnordered, ThresholdsTwo>>,
      <<PolicyUnknownClass, ThresholdsTwo>> }

InitAny == InitWith(AnyConfigurations, {""})

SpecAny == InitAny /\ [][Next]_vars

\* the runs of a country where the thresholds of the last admin area, or of the
\* last station, or of both, have no entry for the trigger return period
ThresholdsWithoutTrigger == << Threshold(20, 10), Threshold(100, 20) >>

WithoutTrigger(units) == [units EXCEPT ![Len(units)].thresholds = ThresholdsWithoutTrigger]

InitMissing ==
    /\ countries = <<>>
    /\ aff_pop_rasters = <<>>
    /\ rejects = ""
    /\ refused = <<>>
    /\ flood_extent_rasters = <<>>
    /\ settings = PolicyReturnPeriod
    /\ threshold_admin \in {ThresholdAdminUnits(ThresholdsTwo),
                             WithoutTrigger(ThresholdAdminUnits(ThresholdsTwo))}
    /\ threshold_station \in {ThresholdStationUnits(ThresholdsTwo),
                               WithoutTrigger(ThresholdStationUnits(ThresholdsTwo))}
    /\ discharge_admin = <<>>
    /\ discharge_station = <<>>
    /\ forecast_admin = <<>>
    /\ forecast_station = <<>>
    /\ pc = "extract"
    /\ error = ""
    /\ processed_stations = <<>>
    /\ processed_pcodes = <<>>
    /\ posted = <<>>
    /\ log = <<>>

SpecMissing == InitMissing /\ [][Next]_vars

\* the runs of the policies with a probability of 0.0: get_country_setting
\* returns whatever the configuration file holds for the country
PolicyZeroTrigger ==
    Policy(3, 50, 0, "return-period",
           Dict(<< <<"min", 20>>, <<"med", 50>> >>), Scalar(50))

PolicyZeroAlert ==
    Policy(3, 50, 60, "return-period",
           Dict(<< <<"min", 20>>, <<"med", 50>> >>), Scalar(0))

PolicyZeroAlertClass ==
    Policy(4, 50, 60, "probability",
           Scalar(50), Dict(<< <<"min", 0>>, <<"med", 50>> >>))

PolicyZeroTriggerDisable ==
    Policy(3, 50, 0, "disable",
           Dict(<< <<"min", 20>>, <<"med", 50>> >>), Scalar(50))

ZeroConfigurations ==
    { <<PolicyProbability, ThresholdsTwo>>,
      <<PolicyZeroTrigger, ThresholdsTwo>>,
      <<PolicyZeroAlert, ThresholdsTwo>>,
      <<PolicyZeroAlertClass, ThresholdsTwo>>,
      <<PolicyZeroTriggerDisable, ThresholdsTwo>> }

InitZero == InitWith(ZeroConfigurations, {""})

SpecZero == InitZero /\ [][Next]_vars

\* the extraction when the sliced files of some ensemble members are not found
InitExtract == InitWith({<<PolicyReturnPeriod, ThresholdsTwo>>}, {""})

ExtractMembers ==
    /\ pc = "extract"
    /\ \E scenario \in Scenarios(MaxBumps), available \in SUBSET (0..(NoEns - 1)) :
        LET r == extract_glofas_data(scenario, settings.admin_levels,
                                     threshold_station, available)
        IN  /\ discharge_admin' = r.discharge_admin
            /\ discharge_station' = r.discharge_station
            /\ log' = r.log
            /\ error' = r.error
            /\ pc' = IF r.error = "" THEN "forecast_admin" ELSE "error"
    /\ UNCHANGED <<settings, threshold_admin, threshold_station, forecast_admin,
                   forecast_station, processed_stations, processed_pcodes, posted,
                   rejects, countries, aff_pop_rasters, refused, flood_extent_rasters>>

SpecExtract == InitExtract /\ [][ExtractMembers]_vars

\* the runs of a country whose thresholds reach a return period that has a flood
\* map other than the smallest one (2, 5 and 20 years)
ThresholdsToFloodMap == << Threshold(20, 10), Threshold(50, 12), Threshold(200, 20) >>

InitFloodMaps == InitWith({<<PolicyReturnPeriod, ThresholdsToFloodMap>>}, {""})

SpecFloodMaps == InitFloodMaps /\ [][Next]_vars

\* the runs over two countries (run_pipeline: for country in countries), each
\* with its own entry of the configuration file; a country whose policy names a
\* class outside the vocabulary makes its forecast stage raise
CountryConfigurations ==
    { <<PolicyReturnPeriod, ThresholdsTwo>>, <<PolicyUnknownClass, ThresholdsTwo>> }

InitCountries ==
    /\ countries \in {<<c>> : c \in CountryConfigurations}
    /\ aff_pop_rasters = <<>>
    /\ rejects = ""
    /\ refused = <<>>
    /\ flood_extent_rasters = <<>>
    /\ \E c \in CountryConfigurations :
        /\ settings = c[1]
        /\ threshold_admin = ThresholdAdminUnits(c[2])
        /\ threshold_station = ThresholdStationUnits(c[2])
    /\ discharge_admin = <<>>
    /\ discharge_station = <<>>
    /\ forecast_admin = <<>>
    /\ forecast_station = <<>>
    /\ pc = "extract"
    /\ error = ""
    /\ processed_stations = <<>>
    /\ processed_pcodes = <<>>
    /\ posted = <<>>
    /\ log = <<>>

\* run_pipeline: the loop body has ended for a country without an exception, and
\* the loop goes on with the next one, whose stages build their datasets, their
\* rasters and their requests anew.  Nothing in the loop catches an exception:
\* a stage that raises ends run_pipeline, and no step follows.
StartNextCountry ==
    /\ pc = "done"
    /\ countries # <<>>
    /\ countries' = Tail(countries)
    /\ settings' = Head(countries)[1]
    /\ threshold_admin' = ThresholdAdminUnits(Head(countries)[2])
    /\ threshold_station' = ThresholdStationUnits(Head(countries)[2])
    /\ discharge_admin' = <<>>
    /\ discharge_station' = <<>>
    /\ forecast_admin' = <<>>
    /\ forecast_station' = <<>>
    /\ flood_extent_rasters' = <<>>
    /\ aff_pop_rasters' = <<>>
    /\ processed_stations' = <<>>
    /\ processed_pcodes' = <<>>
    /\ posted' = <<>>
    /\ log' = <<>>
    /\ refused' = <<>>
    /\ pc' = "extract"
    /\ UNCHANGED <<error, rejects>>

NextCountries ==
    \/ Extract
    \/ ComputeTriggers
    \/ ComputeFloodExtent
    \/ ComputeAffectedPop
    \/ ComputeTriggersStation
    \/ SendToIbfApi
    \/ StartNextCountry

SpecCountries == InitCountries /\ [][NextCountries]_vars

\* the datasets any sequence of upserts builds: the units a caller can pass, for
\* the areas and the stations of the country
AdminUnitsToUpsert ==
    {[adm_level |-> AdminAreas[i].adm_level, pcode |-> AdminAreas[i].pcode,
      lead_time |-> lead_time, discharge_ensemble |-> ensemble,
      discharge_mean |-> compute_mean(ensemble)] :
        i \in DOMAIN AdminAreas, lead_time \in 0..MaxUpsertLeadTime,
        ensemble \in {BaseEnsemble} \cup BumpEnsembles}

StationUnitsToUpsert ==
    {[station_code |-> StationInfo[i].station_code,
      station_name |-> StationInfo[i].station_name, pcodes |-> StationInfo[i].pcodes,
      lead_time |-> lead_time, discharge_ensemble |-> ensemble,
      discharge_mean |-> compute_mean(ensemble)] :
        i \in DOMAIN StationInfo, lead_time \in 0..MaxUpsertLeadTime,
        ensemble \in {BaseEnsemble} \cup BumpEnsembles}

\* AdminDataSet() / StationDataSet(): a dataset starts without units
InitDataSets ==
    /\ countries = <<>>
    /\ aff_pop_rasters = <<>>
    /\ rejects = ""
    /\ refused = <<>>
    /\ flood_extent_rasters = <<>>
    /\ settings = PolicyReturnPeriod
    /\ threshold_admin = ThresholdAdminUnits(ThresholdsThree)
    /\ threshold_station = ThresholdStationUnits(ThresholdsThree)
    /\ discharge_admin = <<>>
    /\ discharge_station = <<>>
    /\ forecast_admin = <<>>
    /\ forecast_station = <<>>
    /\ pc \in {"upsert_admin", "upsert_station"}
    /\ error = ""
    /\ processed_stations = <<>>
    /\ processed_pcodes = <<>>
    /\ posted = <<>>
    /\ log = <<>>

\* AdminDataSet.upsert_data_unit, called with any unit
UpsertAdmin ==
    /\ pc = "upsert_admin"
    /\ \E data_unit \in AdminUnitsToUpsert :
        /\ Len(AdminUpsert(discharge_admin, data_unit)) <= MaxUnits
        /\ discharge_admin' = AdminUpsert(discharge_admin, data_unit)
    /\ UNCHANGED <<settings, threshold_admin, threshold_station, discharge_station,
                   forecast_admin, forecast_station, pc, error, processed_stations,
                   processed_pcodes, posted, log, rejects, countries, aff_pop_rasters, refused, flood_extent_rasters>>

\* StationDataSet.upsert_data_unit, called with any unit
UpsertStation ==
    /\ pc = "upsert_station"
    /\ \E data_unit \in StationUnitsToUpsert :
        /\ Len(StationUpsert(discharge_station, data_unit)) <= MaxUnits
        /\ discharge_station' = StationUpsert(discharge_station, data_unit)
    /\ UNCHANGED <<settings, threshold_admin, threshold_station, discharge_admin,
                   forecast_admin, forecast_station, pc, error, processed_stations,
                   processed_pcodes, posted, log, rejects, countries, aff_pop_rasters, refused, flood_extent_rasters>>

NextDataSets == UpsertAdmin \/ UpsertStation

SpecDataSets == InitDataSets /\ [][NextDataSets]_vars

\* the runs against an IBF API that answers every request to one of its paths
\* with a status >= 400, or none
Paths ==
    { "admin-area-dynamic-data/exposure", "event/triggers-per-leadtime",
      "point-data/dynamic", "admin-area-dynamic-data/raster/floods",
      "event/close-events" }

RejectConfigurations == { <<PolicyReturnPeriod, ThresholdsThree>> }

InitReject == InitWith(RejectConfigurations, Paths \cup {""})

SpecReject == InitReject /\ [][Next]_vars

-----------------------------------------------------------------------------
(* Properties of the forecast engine *)

\* every forecast unit, admin or station, with the discharge ensemble and the
\* thresholds it was computed from
ForecastCases ==
    {[code |-> forecast_admin[i].pcode,
      lead_time |-> forecast_admin[i].lead_time,
      forecasts |-> forecast_admin[i].forecasts,
      triggered |-> forecast_admin[i].triggered,
      return_period |-> forecast_admin[i].return_period,
      alert_class |-> forecast_admin[i].alert_class,
      ensemble |-> AdminGet(discharge_admin, forecast_admin[i].pcode,
                            forecast_admin[i].lead_time).discharge_ensemble,
      thresholds |-> AdminGet(threshold_admin, forecast_admin[i].pcode,
                              NoLeadTime).thresholds] : i \in DOMAIN forecast_admin}
    \cup
    {[code |-> forecast_station[i].station_code,
      lead_time |-> forecast_station[i].lead_time,
      forecasts |-> forecast_station[i].forecasts,
      triggered |-> forecast_station[i].triggered,
      return_period |-> forecast_station[i].return_period,
      alert_class |-> forecast_station[i].alert_class,
      ensemble |-> StationGet(discharge_station, forecast_station[i].station_code,
                              forecast_station[i].lead_time).discharge_ensemble,
      thresholds |-> StationGet(threshold_station, forecast_station[i].station_code,
                                NoLeadTime).thresholds] : i \in DOMAIN forecast_station}

\* the number of members of an ensemble strictly above a value
Exceeding(ensemble, v) == Cardinality({i \in DOMAIN ensemble : ensemble[i] > v})

\* the likelihood of return period rp in case c is at least p percent
LikelihoodAtLeast(c, rp, p) ==
    \E i \in DOMAIN c.thresholds :
        /\ c.thresholds[i].return_period = rp
        /\ Exceeding(c.ensemble, c.thresholds[i].threshold_value) * 100 >= p * Len(c.ensemble)

\* the return periods of case c whose likelihood is >= trigger_min_prob
Qualifying(c) ==
    {c.thresholds[i].return_period : i \in
        {j \in DOMAIN c.thresholds :
            LikelihoodAtLeast(c, c.thresholds[j].return_period,
                              settings.trigger_on_minimum_probability)}}

\* C1: a forecast unit, admin or station, is triggered exactly when the
\* likelihood at the trigger return period is >= trigger_min_prob and its lead
\* time is <= trigger_lead_time.
C1_TriggeredIffCriterion ==
    \A c \in ForecastCases :
        c.triggered <=>
            /\ LikelihoodAtLeast(c, settings.trigger_on_return_period,
                                 settings.trigger_on_minimum_probability)
            /\ c.lead_time <= settings.trigger_on_lead_time

\* a station unit triggered with a likelihood equal to trigger_min_prob, and
\* one not triggered only because its lead time is beyond trigger_lead_time
C1_Witness ==
    /\ pc = "send"
    /\ \E c \in ForecastCases :
        /\ c.triggered
        /\ ~LikelihoodAtLeast(c, settings.trigger_on_return_period,
                              settings.trigger_on_minimum_probability + 1)
    /\ \E c \in ForecastCases :
        /\ ~c.triggered
        /\ LikelihoodAtLeast(c, settings.trigger_on_return_period,
                             settings.trigger_on_minimum_probability)

Ascending(thresholds) ==
    \A i, j \in DOMAIN thresholds :
        i < j => thresholds[i].return_period < thresholds[j].return_period

C4_LikelihoodStrictCount ==
    \A c \in ForecastCases :
        /\ Len(c.forecasts) = Len(c.thresholds)
        /\ \A i \in DOMAIN c.thresholds :
            /\ c.forecasts[i].return_period = c.thresholds[i].return_period
            /\ c.forecasts[i].likelihood.num * Len(c.ensemble) =
                    Exceeding(c.ensemble, c.thresholds[i].threshold_value)
                        * c.forecasts[i].likelihood.den
            /\ c.forecasts[i].likelihood.den > 0

\* a unit with a member equal to a threshold value and no member below it,
\* whose likelihood for that threshold is below 1
C4_Witness ==
    \E c \in ForecastCases : \E i \in DOMAIN c.thresholds :
        /\ \E k \in DOMAIN c.ensemble : c.ensemble[k] = c.thresholds[i].threshold_value
        /\ \A k \in DOMAIN c.ensemble : c.ensemble[k] >= c.thresholds[i].threshold_value
        /\ c.forecasts[i].likelihood.num < c.forecasts[i].likelihood.den

-----------------------------------------------------------------------------
(* Properties of the alert classes *)

\* the total order no < min < med < max
Classes == <<"no", "min", "med", "max">>

ClassRank(class) == CHOOSE i \in DOMAIN Classes : Classes[i] = class

\* the policy map of the run: class -> return period or class -> probability
PolicyMap ==
    IF settings.classify_alert_on = "return-period" THEN settings.alert_on_return_period.items
    ELSE IF settings.classify_alert_on = "probability"
    THEN settings.alert_on_minimum_probability.items
    ELSE IF settings.alert_on_return_period.dict THEN settings.alert_on_return_period.items
    ELSE settings.alert_on_minimum_probability.items

\* the policy map is over the classes min, med, max
OverClasses(items) == \A i \in DOMAIN items : items[i][1] \in {"min", "med", "max"}

\* the values of the policy map rise with the class
RisingWithClass(items) ==
    \A i, j \in DOMAIN items :
        ClassRank(items[i][1]) < ClassRank(items[j][1]) => items[i][2] < items[j][2]

\* the criterion of the policy map's i-th class is met in case c
CriterionMet(c, i) ==
    IF settings.classify_alert_on = "return-period"
    THEN LikelihoodAtLeast(c, PolicyMap[i][2], settings.alert_on_minimum_probability.value)
    ELSE LikelihoodAtLeast(c, settings.alert_on_return_period.value, PolicyMap[i][2])

\* the highest class whose criterion is met in case c, "no" when none is
HighestMet(c) ==
    Classes[SetMax({1} \cup {ClassRank(PolicyMap[i][1]) :
                                i \in {j \in DOMAIN PolicyMap : CriterionMet(c, j)}})]

Classifying ==
    /\ settings.classify_alert_on \in {"return-period", "probability"}
    /\ OverClasses(PolicyMap)

\* C5 as stated: in return-period and probability mode the alert class is the
\* highest class whose criterion is met, for every policy map over the classes.
C5_HighestClassAnyMap ==
    Classifying => \A c \in ForecastCases : c.alert_class = HighestMet(c)

\* C5 amended: in return-period and probability mode the alert class is 'no'
\* exactly when no class criterion is met, and it is the highest class whose
\* criterion is met for every policy map whose values rise with the class.
C5_HighestClassRisingMap ==
    Classifying =>
        \A c \in ForecastCases :
            /\ c.alert_class = "no" <=> HighestMet(c) = "no"
            /\ RisingWithClass(PolicyMap) => c.alert_class = HighestMet(c)

\* a policy map with rising values that is not stored in the order of the
\* classes, and a unit for which two criteria are met and a third is not
C5_Witness ==
    /\ Classifying
    /\ RisingWithClass(PolicyMap)
    /\ PolicyMap[1][1] = "max"
    /\ \E c \in ForecastCases :
        /\ c.alert_class = "med"
        /\ \E i \in DOMAIN PolicyMap : PolicyMap[i][1] = "min" /\ CriterionMet(c, i)
        /\ \E i \in DOMAIN PolicyMap : PolicyMap[i][1] = "max" /\ ~CriterionMet(c, i)

\* the highest class defined in the policy map
HighestDefined(items) ==
    Classes[SetMax({ClassRank(items[i][1]) : i \in DOMAIN items})]

-----------------------------------------------------------------------------
(* Properties of the publisher *)

\* the event loop of send_to_ibf_api has visited every station
EventLoopDone == pc = "done" \/ (pc = "error" /\ error = "FileNotFoundError")

StationCodes == {StationInfo[i].station_code : i \in DOMAIN StationInfo}

\* the name under which the events of a station are published
NameOf(station_code) ==
    LET info == StationInfo[CHOOSE i \in DOMAIN StationInfo :
                                StationInfo[i].station_code = station_code]
    IN  IF info.station_name = "" THEN station_code ELSE info.station_name

\* the forecast unit of a station at a lead time
StationUnit(station_code, lead_time) ==
    forecast_station[CHOOSE i \in DOMAIN forecast_station :
                        /\ forecast_station[i].station_code = station_code
                        /\ forecast_station[i].lead_time = lead_time]

TriggeredAt(station_code) ==
    {l \in LeadTimes : StationUnit(station_code, l).triggered}

AlertedAt(station_code) ==
    {l \in LeadTimes : StationUnit(station_code, l).alert_class # "no"}

\* the events logged for a station, and the messages that carry its event name
EventsOf(station_code) ==
    {log[i] : i \in {j \in DOMAIN log : log[j].event_name = NameOf(station_code)}}

EventMessages(station_code) ==
    {i \in DOMAIN posted : posted[i].eventName = NameOf(station_code)}

\* the station has exactly this event, and its messages are at the event lead time
HasEvent(station_code, event_type, lead_time) ==
    /\ EventsOf(station_code) = {[event_name |-> NameOf(station_code),
                                  event_type |-> event_type, lead_time |-> lead_time]}
    /\ Cardinality({j \in DOMAIN log : log[j].event_name = NameOf(station_code)}) = 1
    /\ EventMessages(station_code) # {}
    /\ \A i \in EventMessages(station_code) :
            posted[i].endpoint = "admin-area-dynamic-data/exposure"
                => posted[i].leadTime = lead_time
    /\ \E i \in DOMAIN posted :
            /\ posted[i].endpoint = "point-data/dynamic"
            /\ posted[i].leadTime = lead_time
            /\ posted[i].data # <<>>
            /\ posted[i].data[1].fid = station_code
    /\ station_code \in Range(processed_stations)

HasNoEvent(station_code) ==
    /\ EventsOf(station_code) = {}
    /\ EventMessages(station_code) = {}
    /\ station_code \notin Range(processed_stations)

\* C7: per station, the event is at the earliest triggered lead time, of type
\* trigger (alert when that lead time is > trigger_lead_time); without triggered
\* lead time it is at the earliest lead time with an alert class other than
\* 'no', of type alert; otherwise the station has no event and no message
\* carries its event name.
C7_EventDerivation ==
    EventLoopDone =>
        \A station_code \in StationCodes :
            IF TriggeredAt(station_code) # {}
            THEN HasEvent(station_code,
                          IF SetMin(TriggeredAt(station_code)) > settings.trigger_on_lead_time
                          THEN "alert" ELSE "trigger",
                          SetMin(TriggeredAt(station_code)))
            ELSE IF AlertedAt(station_code) # {}
            THEN HasEvent(station_code, "alert", SetMin(AlertedAt(station_code)))
            ELSE HasNoEvent(station_code)

\* a station with an alert class at a lead time before its first triggered lead
\* time, published as a trigger at the latter, and a station without event
C7_Witness ==
    /\ pc = "done"
    /\ \E station_code \in StationCodes :
        /\ TriggeredAt(station_code) # {}
        /\ SetMin(AlertedAt(station_code)) < SetMin(TriggeredAt(station_code))
        /\ \E e \in EventsOf(station_code) :
            e.event_type = "trigger" /\ e.lead_time = SetMin(TriggeredAt(station_code))
    /\ \E station_code \in StationCodes : HasNoEvent(station_code)

\* the lead times at which the trigger criterion of a station is met
CriterionMetAt(station_code) ==
    LET thresholds == StationGet(threshold_station, station_code, NoLeadTime).thresholds
        value == thresholds[CHOOSE i \in DOMAIN thresholds :
                    thresholds[i].return_period = settings.trigger_on_return_period
                 ].threshold_value
    IN  {l \in LeadTimes :
            Exceeding(StationGet(discharge_station, station_code, l).discharge_ensemble,
                      value) * 100
                >= settings.trigger_on_minimum_probability
                    * Len(StationGet(discharge_station, station_code, l).discharge_ensemble)}

\* the trigger criterion of a station is met at l only, beyond trigger_lead_time
CriterionOnlyBeyond(station_code, l) ==
    /\ forecast_station # <<>>
    /\ l > settings.trigger_on_lead_time
    /\ CriterionMetAt(station_code) = {l}

\* C8 as stated: a station whose trigger criterion is met only at a lead time l
\* > trigger_lead_time is not triggered at l and has an alert event at l.
C8_AlertBeyondLeadTime ==
    \A station_code \in StationCodes, l \in LeadTimes :
        CriterionOnlyBeyond(station_code, l) =>
            /\ ~StationUnit(station_code, l).triggered
            /\ EventLoopDone => HasEvent(station_code, "alert", l)

\* C8 amended: such a station is not triggered at l, and it has an alert event
\* at l when its alert class at l is not 'no' and is 'no' at every earlier
\* lead time.
C8_AlertBeyondLeadTimeWhenFirst ==
    \A station_code \in StationCodes, l \in LeadTimes :
        CriterionOnlyBeyond(station_code, l) =>
            /\ ~StationUnit(station_code, l).triggered
            /\ (/\ EventLoopDone
                /\ StationUnit(station_code, l).alert_class # "no"
                /\ \A k \in 1..(l - 1) : StationUnit(station_code, k).alert_class = "no")
                    => HasEvent(station_code, "alert", l)

\* the trigger criterion met at one lead time beyond trigger_lead_time, with
\* the highest class, published as an alert
C8_Witness ==
    /\ pc = "done"
    /\ \E station_code \in StationCodes, l \in LeadTimes :
        /\ CriterionOnlyBeyond(station_code, l)
        /\ StationUnit(station_code, l).alert_class = HighestDefined(PolicyMap)
        /\ HasEvent(station_code, "alert", l)

\* the severity of an alert class, in tenths
SeverityOf(class, trigger) ==
    CASE class = "no" -> 0
      [] class = "min" -> 3
      [] class = "med" -> 7
      [] class = "max" -> IF trigger THEN 10 ELSE 7

\* the forecast unit of an admin area at a lead time
AdminUnit(pcode, lead_time) ==
    forecast_admin[CHOOSE i \in DOMAIN forecast_admin :
                        /\ forecast_admin[i].pcode = pcode
                        /\ forecast_admin[i].lead_time = lead_time]

\* the station an event name stands for, and the admin areas mapped to it
StationOfName(event_name) ==
    StationInfo[CHOOSE i \in DOMAIN StationInfo :
                    NameOf(StationInfo[i].station_code) = event_name]

MappedPcodes(event_name) ==
    UNION {Range(StationOfName(event_name).pcodes[j][2]) :
                j \in DOMAIN StationOfName(event_name).pcodes}

\* the type of the event logged under a name
EventTypeOf(event_name) ==
    (CHOOSE e \in Range(log) : e.event_name = event_name).event_type

\* the exposure messages of the events for the severity indicator
SeverityMessages ==
    {i \in DOMAIN posted :
        /\ posted[i].endpoint = "admin-area-dynamic-data/exposure"
        /\ posted[i].key = "alert_threshold"
        /\ posted[i].eventName # "None"}

\* C9: the severity posted for an admin area of an event is 0.0 for no, 0.3 for
\* min, 0.7 for med, and for max 1.0 when the event is a trigger and 0.7 when it
\* is not; an alert class outside {no, min, med, max} ends the run with an
\* error and no severity is posted for it.
C9_SeverityMapping ==
    /\ \A i \in SeverityMessages : \A k \in DOMAIN posted[i].data :
        /\ AdminUnit(posted[i].data[k].placeCode, posted[i].leadTime).alert_class
                \in Range(Classes)
        /\ posted[i].data[k].amount =
                SeverityOf(AdminUnit(posted[i].data[k].placeCode,
                                     posted[i].leadTime).alert_class,
                           EventTypeOf(posted[i].eventName) = "trigger")
    /\ \A e \in Range(log) : \A pcode \in MappedPcodes(e.event_name) :
        AdminUnit(pcode, e.lead_time).alert_class \notin Range(Classes)
            => pc = "error" /\ error = "ValueError"

\* an admin area with class max in an alert event, posted with severity 0.7
C9_Witness ==
    \E i \in SeverityMessages : \E k \in DOMAIN posted[i].data :
        /\ AdminUnit(posted[i].data[k].placeCode, posted[i].leadTime).alert_class = "max"
        /\ EventTypeOf(posted[i].eventName) = "alert"
        /\ posted[i].data[k].amount = 7

\* an admin area of an event with a class outside the vocabulary: the run ends
\* with a ValueError after the two population indicators
C9_WitnessRejected ==
    /\ pc = "error" /\ error = "ValueError"
    /\ \E e \in Range(log) : \E pcode \in MappedPcodes(e.event_name) :
        AdminUnit(pcode, e.lead_time).alert_class = "high"
    /\ SeverityMessages = {}
    /\ posted # <<>>

\* the exposure messages of an event for an indicator and an admin level
ExposureMessages(e, indicator, adm_level) ==
    {i \in DOMAIN posted :
        /\ posted[i].endpoint = "admin-area-dynamic-data/exposure"
        /\ posted[i].eventName = e.event_name
        /\ posted[i].key = indicator
        /\ posted[i].adminLevel = adm_level}

ExpectedAmount(indicator, pcode, e) ==
    CASE indicator = "population_affected" -> AdminUnit(pcode, e.lead_time).pop_affected
      [] indicator = "population_affected_percentage" ->
            AdminUnit(pcode, e.lead_time).pop_affected_perc
      [] indicator = "alert_threshold" ->
            SeverityOf(AdminUnit(pcode, e.lead_time).alert_class, e.event_type = "trigger")

StationMessages(station_code, key) ==
    {i \in DOMAIN posted :
        /\ posted[i].endpoint = "point-data/dynamic"
        /\ posted[i].key = key
        /\ \E k \in DOMAIN posted[i].data : posted[i].data[k].fid = station_code}

\* C11: for every station with an event, the posted eapAlertClass is the
\* station's alert class at the event lead time, except that max is posted as
\* med when the event type is alert: no alert event is posted with max, a
\* trigger event is posted with its class unchanged.
C11_AlertClassPosted ==
    \A e \in Range(log) :
        LET station_code == StationOfName(e.event_name).station_code
            class == StationUnit(station_code, e.lead_time).alert_class
        IN  /\ pc = "done" => StationMessages(station_code, "eapAlertClass") # {}
            /\ \A i \in StationMessages(station_code, "eapAlertClass") :
                /\ posted[i].leadTime = e.lead_time
                /\ posted[i].data =
                        <<[fid |-> station_code,
                           value |-> IF e.event_type = "alert" /\ class = "max"
                                     THEN "med" ELSE class]>>
                /\ e.event_type = "alert" => posted[i].data[1].value # "max"
                /\ e.event_type = "trigger" => posted[i].data[1].value = class

\* an alert event of a station with class max, posted as med, and a trigger
\* event of a station with class max, posted as max
C11_Witness ==
    /\ pc = "done"
    /\ \E e \in Range(log) :
        /\ e.event_type = "alert"
        /\ StationUnit(StationOfName(e.event_name).station_code, e.lead_time).alert_class
                = "max"
        /\ \E i \in StationMessages(StationOfName(e.event_name).station_code,
                                     "eapAlertClass") :
                posted[i].data[1].value = "med"
    /\ \E e \in Range(log) :
        /\ e.event_type = "trigger"
        /\ \E i \in StationMessages(StationOfName(e.event_name).station_code,
                                     "eapAlertClass") :
                posted[i].data[1].value = "max"

\* the messages with the flags per lead time of an event
FlagMessages(event_name) ==
    {i \in DOMAIN posted :
        /\ posted[i].endpoint = "event/triggers-per-leadtime"
        /\ posted[i].eventName = event_name}

\* C12: in every message with the flags per lead time of an event, the trigger
\* flag (thresholdReached) at lead time l is true exactly when the event type is
\* trigger and l >= event lead time, the alert flag (triggered) exactly when
\* l >= event lead time; both flags are monotone in the lead time.
C12_FlagsPerLeadTime ==
    /\ \A i \in DOMAIN posted :
            posted[i].endpoint = "event/triggers-per-leadtime" =>
                \E e \in Range(log) : e.event_name = posted[i].eventName
    /\ \A e \in Range(log) :
        /\ pc = "done" => Cardinality(FlagMessages(e.event_name)) = 1
        /\ \A i \in FlagMessages(e.event_name) :
            /\ DOMAIN posted[i].data = LeadTimes
            /\ \A l \in DOMAIN posted[i].data :
                /\ posted[i].data[l].leadTime = l
                /\ posted[i].data[l].thresholdReached
                        <=> (e.event_type = "trigger" /\ l >= e.lead_time)
                /\ posted[i].data[l].triggered <=> l >= e.lead_time
            /\ \A k \in DOMAIN posted[i].data, l \in DOMAIN posted[i].data :
                k <= l =>
                    /\ posted[i].data[k].thresholdReached => posted[i].data[l].thresholdReached
                    /\ posted[i].data[k].triggered => posted[i].data[l].triggered

\* a trigger event after the first lead time, its flags false before the event
\* lead time and true from it on, and an alert event, its trigger flags false
C12_Witness ==
    /\ pc = "done"
    /\ \E e \in Range(log) :
        /\ e.event_type = "trigger" /\ e.lead_time > 1
        /\ \E i \in FlagMessages(e.event_name) :
            /\ ~posted[i].data[e.lead_time - 1].triggered
            /\ posted[i].data[e.lead_time].thresholdReached
            /\ posted[i].data[LastLeadTime].thresholdReached
    /\ \E e \in Range(log) :
        /\ e.event_type = "alert" /\ e.lead_time < LastLeadTime
        /\ \E i \in FlagMessages(e.event_name) :
            /\ posted[i].data[LastLeadTime].triggered
            /\ ~posted[i].data[LastLeadTime].thresholdReached

\* a station message of the event loop: it carries the value of one station,
\* which the loop then lists in processed_stations
IsEventStationMessage(i) ==
    /\ posted[i].endpoint = "point-data/dynamic"
    /\ posted[i].data # <<>>
    /\ posted[i].data[1].fid \in Range(processed_stations)

\* the group of a message: 1 the event loop, 2 the flood extent raster, 3 the
\* exposures without event, 4 the other stations, 5 the closing message
GroupOf(i) ==
    CASE posted[i].endpoint = "admin-area-dynamic-data/exposure" ->
            IF posted[i].eventName = "None" THEN 3 ELSE 1
      [] posted[i].endpoint = "event/triggers-per-leadtime" -> 1
      [] posted[i].endpoint = "point-data/dynamic" ->
            IF IsEventStationMessage(i) THEN 1 ELSE 4
      [] posted[i].endpoint = "admin-area-dynamic-data/raster/floods" -> 2
      [] posted[i].endpoint = "event/close-events" -> 5

\* within the event loop: 1 exposures, 2 flags per lead time, 3 station data
StepOf(i) ==
    CASE posted[i].endpoint = "admin-area-dynamic-data/exposure" -> 1
      [] posted[i].endpoint = "event/triggers-per-leadtime" -> 2
      [] posted[i].endpoint = "point-data/dynamic" -> 3

\* the station whose event a message of the event loop belongs to
StationOfMessage(i) ==
    IF posted[i].endpoint = "point-data/dynamic" THEN posted[i].data[1].fid
    ELSE StationOfName(posted[i].eventName).station_code

EventLoopMessages == {i \in DOMAIN posted : GroupOf(i) = 1}

\* C13: the messages of a run are in this order: for each event its exposures,
\* then its flags per lead time, then its station data; after all events the
\* flood extent raster, then the exposures without event, then the station data
\* of the other stations, and last the closing message; no message of an
\* earlier group follows a message of a later group.
C13_MessageOrder ==
    /\ \A i \in DOMAIN posted, j \in DOMAIN posted : i < j => GroupOf(i) <= GroupOf(j)
    /\ \A i \in EventLoopMessages, j \in EventLoopMessages :
            (i < j /\ StationOfMessage(i) = StationOfMessage(j)) =>
                /\ StepOf(i) <= StepOf(j)
                /\ \A k \in i..j : StationOfMessage(k) = StationOfMessage(i)
    /\ \A i \in DOMAIN posted : GroupOf(i) = 5 => i = Len(posted)
    /\ pc = "done" =>
            /\ posted[Len(posted)].endpoint = "event/close-events"
            /\ \A e \in Range(log) :
                    {StepOf(i) : i \in {j \in EventLoopMessages :
                        StationOfMessage(j) = StationOfName(e.event_name).station_code}}
                        = {1, 2, 3}

\* a complete run with two events, the raster, the station data of the other
\* stations and the closing message
C13_Witness ==
    /\ pc = "done"
    /\ Len(log) = 2
    /\ {GroupOf(i) : i \in DOMAIN posted} = {1, 2, 4, 5}
    /\ \E i \in EventLoopMessages, j \in EventLoopMessages :
            i < j /\ StepOf(i) = 3 /\ StepOf(j) = 1

\* C14: a POST answered with a status >= 400 is fatal for the run: no message
\* is posted after it; the closing message is posted at most once, only as the
\* last message, and only when no POST of the run was refused.
C14_RejectionIsFatal ==
    /\ refused # <<>> =>
            /\ pc = "error" /\ error = "ValueError"
            /\ Len(refused) = 1
            /\ Len(posted) = refused[1].after
    /\ \A i \in DOMAIN posted : posted[i].endpoint # rejects
    /\ Cardinality({i \in DOMAIN posted : posted[i].endpoint = "event/close-events"}) <= 1
    /\ \A i \in DOMAIN posted :
            posted[i].endpoint = "event/close-events" =>
                i = Len(posted) /\ refused = <<>>
    /\ pc = "done" =>
            refused = <<>> /\ posted[Len(posted)].endpoint = "event/close-events"

\* the flags per lead time of an event refused after its exposures were
\* accepted: nothing follows
C14_Witness ==
    /\ refused # <<>>
    /\ refused[1].request.endpoint = "event/triggers-per-leadtime"
    /\ posted # <<>>
    /\ \A i \in DOMAIN posted : posted[i].endpoint = "admin-area-dynamic-data/exposure"

\* the admin areas the events of the run touch
TouchedPcodes == UNION {MappedPcodes(e.event_name) : e \in Range(log)}

\* the exposure messages without event for an indicator and an admin level
NoEventMessages(indicator, adm_level) ==
    {i \in DOMAIN posted :
        /\ posted[i].endpoint = "admin-area-dynamic-data/exposure"
        /\ posted[i].eventName = "None"
        /\ posted[i].key = indicator
        /\ posted[i].adminLevel = adm_level}

\* the admin areas of a level
AreasOfLevel(adm_level) ==
    {AdminAreas[i].pcode : i \in {j \in DOMAIN AdminAreas :
                                        AdminAreas[j].adm_level = adm_level}}

\* C15: when no admin area is touched by an event of the run, the publisher
\* posts for every admin level an exposure record with lead time 1, eventName
\* null and amount zero for every place code of the level; when an admin area
\* is touched by an event, no exposure record with eventName null is posted.
C15_ZeroSentinel ==
    pc = "done" =>
        IF TouchedPcodes = {}
        THEN \A j \in DOMAIN settings.admin_levels, k \in DOMAIN indicators :
                \E i \in NoEventMessages(indicators[k], settings.admin_levels[j]) :
                    /\ posted[i].leadTime = 1
                    /\ {posted[i].data[n].placeCode : n \in DOMAIN posted[i].data}
                            = AreasOfLevel(settings.admin_levels[j])
                    /\ \A n \in DOMAIN posted[i].data : posted[i].data[n].amount = 0
        ELSE \A i \in DOMAIN posted : posted[i].eventName # "None"

\* the value of a key for a station at a lead time
StationValueAt(station_code, key, lead_time) ==
    CASE key = "forecastLevel" ->
            StationGet(discharge_station, station_code, lead_time).discharge_mean.num
                \div StationGet(discharge_station, station_code, lead_time).discharge_mean.den
      [] key = "eapAlertClass" -> StationUnit(station_code, lead_time).alert_class
      [] key = "forecastReturnPeriod" -> StationUnit(station_code, lead_time).return_period
      [] key = "triggerLevel" ->
            get_threshold(StationGet(threshold_station, station_code, NoLeadTime).thresholds,
                          settings.trigger_on_return_period)

\* C16: every station of the forecast dataset is reported exactly once per key
\* in a run: at its event lead time if it has an event, otherwise in the
\* message of lead time 7, whose values are those of the station at lead time 7.
C16_OtherStationsAtLastLeadTime ==
    pc = "done" =>
        \A station_code \in StationCodes, k \in DOMAIN station_forecasts :
            /\ Cardinality(StationMessages(station_code, station_forecasts[k])) = 1
            /\ \A i \in StationMessages(station_code, station_forecasts[k]) :
                IF EventsOf(station_code) # {}
                THEN /\ posted[i].leadTime \in {e.lead_time : e \in EventsOf(station_code)}
                     /\ Len(posted[i].data) = 1
                ELSE /\ posted[i].leadTime = LastLeadTime
                     /\ Cardinality({n \in DOMAIN posted[i].data :
                                        posted[i].data[n].fid = station_code}) = 1
                     /\ \A n \in DOMAIN posted[i].data :
                            posted[i].data[n].fid = station_code =>
                                posted[i].data[n].value =
                                    StationValueAt(station_code, station_forecasts[k],
                                                   LastLeadTime)

RasterMessages ==
    {i \in DOMAIN posted : posted[i].endpoint = "admin-area-dynamic-data/raster/floods"}

\* C17: after the event loop the publisher posts one flood extent raster for
\* every lead time 0..7: the extent of the lead time when a unit is triggered
\* at that lead time, and the empty raster otherwise.
C17_RasterPerLeadTime ==
    pc = "done" =>
        \A l \in 0..LastLeadTime :
            \E i \in RasterMessages :
                /\ posted[i].leadTime = l
                /\ posted[i].data = <<>> <=>
                        ~\E n \in DOMAIN forecast_admin :
                            forecast_admin[n].lead_time = l /\ forecast_admin[n].triggered

\* C18: after the forecast computation every admin forecast unit has
\* pop_affected >= 0 and 0 <= pop_affected_perc <= 100 (in hundredths of a
\* percent); pop_affected > 0 only if the unit is triggered, and a unit that is
\* not triggered keeps pop_affected = 0 and pop_affected_perc = 0.0.
C18_PopulationRanges ==
    \A i \in DOMAIN forecast_admin :
        /\ forecast_admin[i].pop_affected >= 0
        /\ forecast_admin[i].pop_affected_perc >= 0
        /\ forecast_admin[i].pop_affected_perc <= 10000
        /\ forecast_admin[i].pop_affected > 0 => forecast_admin[i].triggered
        /\ ~forecast_admin[i].triggered =>
                /\ forecast_admin[i].pop_affected = 0
                /\ forecast_admin[i].pop_affected_perc = 0

\* C19: after any sequence of upserts no two stored units of an admin dataset
\* share (pcode, lead_time) and no two of a station dataset share (station_code,
\* lead_time); an upsert whose key is stored replaces that unit and leaves every
\* other unit as it was, and an upsert with a new key adds exactly that one unit.
AdminKeyOf(data_unit) == <<data_unit.pcode, data_unit.lead_time>>

StationKeyOf(data_unit) == <<data_unit.station_code, data_unit.lead_time>>

UpsertedAt(before, after, i, data_unit) ==
    /\ Len(after) = Len(before)
    /\ after[i] = data_unit
    /\ \A j \in DOMAIN before : j # i => after[j] = before[j]

C19_UpsertKeepsKeysUnique ==
    /\ \A i, j \in DOMAIN discharge_admin :
            AdminKeyOf(discharge_admin[i]) = AdminKeyOf(discharge_admin[j]) => i = j
    /\ \A i, j \in DOMAIN discharge_station :
            StationKeyOf(discharge_station[i]) = StationKeyOf(discharge_station[j]) => i = j
    /\ \A data_unit \in AdminUnitsToUpsert :
            LET after == AdminUpsert(discharge_admin, data_unit)
                stored == {i \in DOMAIN discharge_admin :
                            AdminKeyOf(discharge_admin[i]) = AdminKeyOf(data_unit)}
            IN  IF stored = {} THEN after = Append(discharge_admin, data_unit)
                ELSE \A i \in stored : UpsertedAt(discharge_admin, after, i, data_unit)
    /\ \A data_unit \in StationUnitsToUpsert :
            LET after == StationUpsert(discharge_station, data_unit)
                stored == {i \in DOMAIN discharge_station :
                            StationKeyOf(discharge_station[i]) = StationKeyOf(data_unit)}
            IN  IF stored = {} THEN after = Append(discharge_station, data_unit)
                ELSE \A i \in stored : UpsertedAt(discharge_station, after, i, data_unit)

\* a full admin dataset whose first unit holds a raised ensemble, shares its pcode
\* with a later unit of another lead time, and is replaced by the upsert of the
\* base ensemble under its key
C19_Witness ==
    /\ pc = "upsert_admin"
    /\ Len(discharge_admin) = MaxUnits
    /\ discharge_admin[1].discharge_ensemble # BaseEnsemble
    /\ \E j \in 2..Len(discharge_admin) :
            /\ discharge_admin[j].pcode = discharge_admin[1].pcode
            /\ discharge_admin[j].lead_time # discharge_admin[1].lead_time
    /\ \E data_unit \in AdminUnitsToUpsert :
            /\ AdminKeyOf(data_unit) = AdminKeyOf(discharge_admin[1])
            /\ data_unit.discharge_ensemble = BaseEnsemble
            /\ AdminUpsert(discharge_admin, data_unit)[1] = data_unit
            /\ AdminUpsert(discharge_admin, data_unit) # discharge_admin

\* the forecasts of a unit in ascending order of return period
SortedByReturnPeriod(forecasts) ==
    \A i, j \in DOMAIN forecasts :
        i < j => forecasts[i].return_period < forecasts[j].return_period

\* the likelihood does not rise along the forecasts
NonIncreasingLikelihood(forecasts) ==
    \A i, j \in DOMAIN forecasts :
        i < j => forecasts[j].likelihood.num * forecasts[i].likelihood.den
                    <= forecasts[i].likelihood.num * forecasts[j].likelihood.den

\* the threshold values do not fall along the stored thresholds
NonDecreasingValues(thresholds) ==
    \A i, j \in DOMAIN thresholds :
        i < j => thresholds[i].threshold_value <= thresholds[j].threshold_value

C21_RunContinuesAfterError == pc = "error" => countries = <<>>

\* the deepest admin level of the forecast dataset
DeepestLevel == SetMax({forecast_admin[i].adm_level : i \in DOMAIN forecast_admin})

\* the units of the forecast dataset that are triggered at a lead time, at the
\* deepest admin level
TriggeredDeepest(lead_time) ==
    {i \in DOMAIN forecast_admin :
        /\ forecast_admin[i].lead_time = lead_time
        /\ forecast_admin[i].adm_level = DeepestLevel
        /\ forecast_admin[i].triggered}

\* C22: once the flood extents are computed there is one per lead time of the
\* forecast dataset, built from one clip per unit of the deepest admin level
\* that is triggered at that lead time and from nothing else; without such a
\* unit the extent is the empty raster (no clip).
C22_ExtentFromTriggeredDeepest ==
    flood_extent_rasters # <<>> =>
        /\ {flood_extent_rasters[r].lead_time : r \in DOMAIN flood_extent_rasters}
                = get_lead_times(forecast_admin)
        /\ \A r \in DOMAIN flood_extent_rasters :
            LET raster == flood_extent_rasters[r]
            IN  /\ {raster.clips[k].pcode : k \in DOMAIN raster.clips}
                        = {forecast_admin[i].pcode : i \in TriggeredDeepest(raster.lead_time)}
                /\ Len(raster.clips) = Cardinality(TriggeredDeepest(raster.lead_time))
                /\ TriggeredDeepest(raster.lead_time) = {} => raster.clips = <<>>

\* computed extents with a lead time that has a clip, and a lead time whose
\* extent is the empty raster although a unit of a higher level is triggered
C22_Witness ==
    /\ \E r \in DOMAIN flood_extent_rasters : flood_extent_rasters[r].clips # <<>>
    /\ \E r \in DOMAIN flood_extent_rasters :
        /\ flood_extent_rasters[r].clips = <<>>
        /\ \E i \in DOMAIN forecast_admin :
            /\ forecast_admin[i].lead_time = flood_extent_rasters[r].lead_time
            /\ forecast_admin[i].adm_level < DeepestLevel
            /\ forecast_admin[i].triggered

\* the unit of the forecast dataset a clip was made for
UnitOfClip(raster, clip) == AdminGet(forecast_admin, clip.pcode, raster.lead_time)

\* C23: a clip of a lead-time extent uses the flood map of its unit's
\* return_period when that is one of 10, 20, 50, 75, 100, 200, 500 years, and
\* the map of 10 years, the smallest, when it is not.
C23_FloodMapOfReturnPeriod ==
    \A r \in DOMAIN flood_extent_rasters :
        \A k \in DOMAIN flood_extent_rasters[r].clips :
            LET clip == flood_extent_rasters[r].clips[k]
                unit == UnitOfClip(flood_extent_rasters[r], clip)
            IN  /\ unit.triggered
                /\ clip.flood_map =
                        IF unit.return_period \in {100, 200, 500, 750, 1000, 2000, 5000}
                        THEN unit.return_period ELSE 100

\* extents with a clip from the map of 20 years for a unit of that return
\* period, and a clip from the map of 10 years for a unit of return period 5
C23_Witness ==
    /\ \E r \in DOMAIN flood_extent_rasters :
        \E k \in DOMAIN flood_extent_rasters[r].clips :
            /\ flood_extent_rasters[r].clips[k].flood_map = 200
            /\ UnitOfClip(flood_extent_rasters[r],
                          flood_extent_rasters[r].clips[k]).return_period = 200
    /\ \E r \in DOMAIN flood_extent_rasters :
        \E k \in DOMAIN flood_extent_rasters[r].clips :
            /\ flood_extent_rasters[r].clips[k].flood_map = 100
            /\ UnitOfClip(flood_extent_rasters[r],
                          flood_extent_rasters[r].clips[k]).return_period = 50

\* the flood extent of a lead time
ExtentOf(lead_time) ==
    flood_extent_rasters[CHOOSE r \in DOMAIN flood_extent_rasters :
                            flood_extent_rasters[r].lead_time = lead_time]

\* C24: the affected-population raster of every lead time is the population
\* raster clipped to the shapes of that lead time's own flood extent, and a lead
\* time whose extent has no flooded pixel has no affected-population raster.
C24_OwnFloodShapesOnly ==
    \A a \in DOMAIN aff_pop_rasters :
        /\ aff_pop_rasters[a].flood_shapes = ShapesOf(ExtentOf(aff_pop_rasters[a].lead_time))
        /\ ExtentOf(aff_pop_rasters[a].lead_time).clips = <<>> => ~aff_pop_rasters[a].written

\* what the rasters are clipped to: the shapes of the extents of the lead times
\* up to and including their own
C24_ShapesOfEarlierLeadTimes ==
    \A a \in DOMAIN aff_pop_rasters :
        /\ Range(aff_pop_rasters[a].flood_shapes) =
                UNION {Range(ShapesOf(flood_extent_rasters[r])) :
                        r \in {x \in DOMAIN flood_extent_rasters :
                                flood_extent_rasters[x].lead_time
                                    <= aff_pop_rasters[a].lead_time}}
        /\ aff_pop_rasters[a].written = (aff_pop_rasters[a].flood_shapes # <<>>)

\* C25: the exposure computation raises no division error and stores a finite
\* pop_affected_perc for every triggered unit, 0.0 (with pop_affected 0 when the
\* affected sum is missing) when the population sum of the unit is 0 or missing.
C25_FinitePercentage ==
    /\ error # "ZeroDivisionError"
    /\ \A i \in DOMAIN forecast_admin :
        forecast_admin[i].triggered =>
            /\ forecast_admin[i].pop_affected >= 0
            /\ forecast_admin[i].pop_affected_perc # NotANumber
            /\ \A zonal \in ZonalSums :
                    zonal.pop \in {0, NoSum, NotANumber} =>
                        pop_affected_perc_of(pop_affected_of(zonal), zonal) = 0

\* the ensemble members whose file was found: those without a warning
MembersFound == (0..(NoEns - 1)) \ {log[i].ensemble : i \in DOMAIN log}

\* the discharge units of both datasets
DischargeUnits == Range(discharge_admin) \cup Range(discharge_station)

\* the vector of a unit is a full ensemble of the files cut down to the members
\* that were found, in ascending order of the member index
SamplesOfMembersFound(unit) ==
    /\ Len(unit.discharge_ensemble) = Cardinality(MembersFound)
    /\ \E ensemble \in {BaseEnsemble} \cup BumpEnsembles :
        \E position \in [DOMAIN unit.discharge_ensemble -> MembersFound] :
            /\ \A i, j \in DOMAIN position : i < j => position[i] < position[j]
            /\ \A i \in DOMAIN position :
                    unit.discharge_ensemble[i] = ensemble[position[i] + 1]

\* C26 as stated: for any subset of missing members the extraction completes,
\* with a warning for each, and every vector has one sample per member found, in
\* ascending order of the member index, and no padding.
C26_AnyMissingSubset ==
    pc # "extract" =>
        /\ error = ""
        /\ Cardinality(DischargeUnits) = (Len(AdminAreas) + Len(StationInfo)) * LastLeadTime
        /\ \A unit \in DischargeUnits : SamplesOfMembersFound(unit)

\* C26 amended: the same when the file of at least one member is found; when
\* none is found the extraction ends in a KeyError and stores no unit.
C26_MissingButNotAll ==
    pc # "extract" =>
        IF MembersFound # {}
        THEN /\ error = ""
             /\ Cardinality(DischargeUnits)
                    = (Len(AdminAreas) + Len(StationInfo)) * LastLeadTime
             /\ \A unit \in DischargeUnits : SamplesOfMembersFound(unit)
        ELSE error = "KeyError" /\ DischargeUnits = {}

\* an extraction that found the last member only, with a unit whose one sample
\* is that member's, and a warning for the first member
C26_Witness ==
    /\ pc = "forecast_admin"
    /\ MembersFound = {NoEns - 1}
    /\ log # <<>>
    /\ \E unit \in DischargeUnits : unit.discharge_ensemble = <<25>>
    /\ \E unit \in DischargeUnits : unit.discharge_ensemble = <<1>>

\* the thresholds of a unit have no entry for the trigger return period
TriggerMissing(thresholds) == ~HasThreshold(thresholds, settings.trigger_on_return_period)

\* the discharge units whose thresholds have no entry for the trigger return period
AdminMissing ==
    {i \in DOMAIN discharge_admin :
        TriggerMissing(AdminGet(threshold_admin, discharge_admin[i].pcode,
                                NoLeadTime).thresholds)}

StationMissing ==
    {i \in DOMAIN discharge_station :
        TriggerMissing(StationGet(threshold_station, discharge_station[i].station_code,
                                  NoLeadTime).thresholds)}

\* C27: when the trigger return period is not among the return periods of a
\* unit's thresholds, the trigger derivation of its dataset ends in an error, for
\* admin units and for station units, and no forecast unit is stored for that unit.
C27_MissingTriggerReturnPeriod ==
    /\ \A i \in AdminMissing :
        /\ pc \in {"forecast_admin", "error"}
        /\ pc = "error" => error \in Exceptions /\ forecast_station = <<>>
        /\ ~AdminHas(forecast_admin, discharge_admin[i].pcode, discharge_admin[i].lead_time)
    /\ \A i \in StationMissing :
        /\ pc \in {"forecast_admin", "flood_extent", "affected_pop",
                    "forecast_station", "error"}
        /\ (pc = "error" /\ AdminMissing = {}) => error \in Exceptions
        /\ ~StationHas(forecast_station, discharge_station[i].station_code,
                       discharge_station[i].lead_time)

\* the station derivation has failed on the station without the trigger return
\* period, after storing the units of the station before it, and the admin
\* forecasts, whose thresholds are complete, are all stored
C27_Witness ==
    /\ pc = "error"
    /\ error = "ValueError"
    /\ AdminMissing = {}
    /\ StationMissing # {}
    /\ Len(forecast_admin) = Len(discharge_admin)
    /\ forecast_station # <<>>
    /\ \E i \in DOMAIN forecast_admin : forecast_admin[i].triggered

\* the admin derivation has failed on the area without the trigger return
\* period, after storing the units of the area before it
C27_AdminFailure ==
    /\ pc = "error"
    /\ error = "KeyError"
    /\ AdminMissing # {}
    /\ forecast_admin # <<>>

\* every member of the ensemble is below the smallest threshold of the unit
AllBelow(c) ==
    \A i \in DOMAIN c.ensemble :
        \A t \in DOMAIN c.thresholds : c.ensemble[i] < c.thresholds[t].threshold_value

\* C28 as stated: whatever the probabilities of the policy, in [0, 1], and its
\* classification mode, a unit whose members are all below its smallest
\* threshold has alert_class no, triggered false and return_period 0.0.
C28_AllBelowAnyPolicy ==
    \A c \in ForecastCases :
        AllBelow(c) => c.alert_class = "no" /\ ~c.triggered /\ c.return_period = 0

\* the probabilities the classification of the policy compares a likelihood with
AlertProbabilities ==
    IF settings.classify_alert_on = "return-period"
    THEN {settings.alert_on_minimum_probability.value}
    ELSE IF settings.classify_alert_on = "probability"
    THEN {settings.alert_on_minimum_probability.items[i][2] :
            i \in DOMAIN settings.alert_on_minimum_probability.items}
    ELSE {}

\* C28 amended: such a unit has triggered false and return_period 0.0 when
\* trigger_min_prob is above 0, and alert_class no when the probabilities the
\* classification compares with are above 0 (in disable mode: when it is not
\* triggered); with a probability of 0 the likelihood 0 meets the criterion.
C28_AllBelowPositivePolicy ==
    \A c \in ForecastCases :
        AllBelow(c) =>
            /\ settings.trigger_on_minimum_probability > 0
                    => ~c.triggered /\ c.return_period = 0
            /\ settings.trigger_on_minimum_probability = 0
                    => /\ c.triggered = (c.lead_time <= settings.trigger_on_lead_time)
                       /\ c.return_period > 0
            /\ (settings.classify_alert_on # "disable" /\ 0 \notin AlertProbabilities)
                    => c.alert_class = "no"
            /\ (settings.classify_alert_on # "disable" /\ 0 \in AlertProbabilities)
                    => c.alert_class # "no"
            /\ settings.classify_alert_on = "disable"
                    => (c.alert_class = "no") = ~c.triggered

\* a policy with probabilities above 0, in probability mode, and a unit within
\* the trigger lead time whose members are all below its thresholds
C28_Witness ==
    /\ settings.classify_alert_on = "probability"
    /\ settings.trigger_on_minimum_probability > 0
    /\ 0 \notin AlertProbabilities
    /\ \E c \in ForecastCases :
        /\ AllBelow(c)
        /\ c.lead_time <= settings.trigger_on_lead_time
        /\ c.alert_class = "no" /\ ~c.triggered /\ c.return_period = 0

\* the exposure records without event (eventName null)
SentinelMessages ==
    {i \in DOMAIN posted :
        /\ posted[i].endpoint = "admin-area-dynamic-data/exposure"
        /\ posted[i].eventName = "None"}

\* the messages of an event: its exposures, its flags per lead time, the
\* values of its station
EventNamedMessages ==
    {i \in DOMAIN posted :
        \/ /\ posted[i].endpoint = "admin-area-dynamic-data/exposure"
           /\ posted[i].eventName # "None"
        \/ posted[i].endpoint = "event/triggers-per-leadtime"
        \/ IsEventStationMessage(i)}

\* C29: a publisher run never posts both an exposure record without event and
\* a message of an event; when a station has an event, also one whose pcodes
\* map lists no admin area, no exposure record without event is posted.
C29_SentinelOrEvents ==
    /\ SentinelMessages = {} \/ EventNamedMessages = {}
    /\ (pc = "done" /\ log # <<>>) => SentinelMessages = {}

\* the rule the publisher follows: the records without event are posted exactly
\* when the events of the run touch no admin area
C29_SentinelWhenNoAreaTouched ==
    pc = "done" => ((SentinelMessages # {}) = (TouchedPcodes = {}))

\* C30: in both containers the lookup with the key and the lead time of a unit
\* returns that unit right after its upsert, and as long as it is stored, for
\* every lead time a unit can carry, 0 included.
C30_GetAfterUpsert ==
    /\ \A data_unit \in AdminUnitsToUpsert :
            AdminGet(AdminUpsert(discharge_admin, data_unit),
                     data_unit.pcode, data_unit.lead_time) = data_unit
    /\ \A i \in DOMAIN discharge_admin :
            AdminGet(discharge_admin, discharge_admin[i].pcode,
                     discharge_admin[i].lead_time) = discharge_admin[i]
    /\ \A data_unit \in StationUnitsToUpsert :
            StationGet(StationUpsert(discharge_station, data_unit),
                       data_unit.station_code, data_unit.lead_time) = data_unit
    /\ \A i \in DOMAIN discharge_station :
            StationGet(discharge_station, discharge_station[i].station_code,
                       discharge_station[i].lead_time) = discharge_station[i]

\* the same for the admin container, and for the station container at the lead
\* times other than 0
C30_GetAfterUpsertButStationAtZero ==
    /\ \A data_unit \in AdminUnitsToUpsert :
            AdminGet(AdminUpsert(discharge_admin, data_unit),
                     data_unit.pcode, data_unit.lead_time) = data_unit
    /\ \A data_unit \in StationUnitsToUpsert :
            data_unit.lead_time # 0 =>
                StationGet(StationUpsert(discharge_station, data_unit),
                           data_unit.station_code, data_unit.lead_time) = data_unit

====
